---- MODULE Spec2Model ----
(***************************************************************************)
(* Agent Hub: the store abstraction (MemoryStore, VolumeStore, RedisStore), *)
(* the hub's delivery engine and the client-side transports.                *)
(*                                                                          *)
(* Spec        the store contract: the same call sequence applied to the    *)
(*             three adapters.                                              *)
(* SpecBuffer  one message buffer, starting empty, pushed to with one cap   *)
(*             and flushed: a store agent's, HubClient's or NostrClient's.  *)
(* SpecShared  RedisStore used by two processes: every Redis command is one *)
(*             atomic step, the commands of different connections           *)
(*             interleave (a pipeline is not a transaction).                *)
(* SpecHub     the hub's /agent/stream, /sse, /agent/send and close         *)
(*             handlers.                                                    *)
(* SpecPublish NostrClient.publish, handleOk, the 5 s timers and the write  *)
(*             callbacks of one client; SpecPublishFair adds the fairness   *)
(*             of timers and callbacks.                                     *)
(* SpecRelay   three NostrClients of two teams on one relay.                *)
(* SpecOrder   RedisStore.pushMessage calls in flight at once, several per   *)
(*             hub process, each process on its own connection.             *)
(* SpecLifecycle  connect, close, socket errors and the presence heartbeat  *)
(*             of two NostrClients of one team, with the time in seconds;   *)
(*             SpecLifecycleFair adds the fairness of sockets and timers.   *)
(* SpecHandler  the hub's two stream handlers step by step: the keep-alive   *)
(*             timer, the awaited store calls, the close listener.          *)
(* SpecReceive  the hub and one HubClient: send, the stream, the client's    *)
(*             buffer and its receive.                                      *)
(* SpecTrim     SpecShared's pushes with a maxBuffer of 1 beside a reader.   *)
(* SpecReconnect  SpecShared's pushes beside the getAgent / saveAgent of a  *)
(*             stream handler.                                              *)
(* SpecWait     SpecPublish's socket and sends with the seconds a send has  *)
(*             waited for the socket to open.                               *)
(* SpecConfigure  configure, isConfigured and identity of both transports,  *)
(*             given the same options.                                      *)
(* SpecFrames   the 'message' listener of a NostrClient, fed malformed and  *)
(*             well-formed frames.                                          *)
(* SpecSnapshot  the VolumeStore's data file and temporary file while one   *)
(*             process mutates, is killed, and a reader looks on.           *)
(* SpecFault    the VolumeStore while reads and writes of the file may fail.*)
(* SpecJoin     the setup tools of the MCP client on the hub transport.     *)
(* SpecKnown    the known agents of a NostrClient under events, connect,    *)
(*             close, flushMessages and listAgents.                         *)
(* SpecExport   exportConfig of a NostrClient and a fresh client configured *)
(*             with the result.                                             *)
(***************************************************************************)
EXTENDS Integers, Sequences, FiniteSets, TLC

\* ------------------------------------------------------------------ bounds

Teams == {"t1", "t2"}
\* the (team, name) pairs the store contract is exercised with
Keys == {<<"t1", "alice">>, <<"t1", "bob">>, <<"t2", "alice">>}

\* fresh message ids handed out by uuidv4(): 1 .. MaxMsgs
MaxMsgs == 3
\* SpecBuffer: the messages sent to one buffer, and the largest maxBuffer
MaxPushes == 5
MaxCap == 3
\* SpecShared: the messages pushed
MaxShared == 2
\* SpecHub: the streams opened and the messages sent
MaxStreams == 3
MaxSends == 2
\* team.maxAgentsPerTeam as configured for the model (20 by default)
maxAgents == 2
\* the maxBuffer arguments tried
Caps == {0, 1, 2}
\* the lengths of the buffers handed to saveAgent
SaveLens == {0, 1, 2}

\* sessionId / connectedAt of a record passed to saveAgent
Metas == { [sessionId |-> "s1", connectedAt |-> 1],
           [sessionId |-> "s2", connectedAt |-> 2] }

Max(a, b) == IF a > b THEN a ELSE b
Min(a, b) == IF a < b THEN a ELSE b

\* Array.prototype.shift(): drop the head
Shift(buf) == IF Len(buf) = 0 THEN buf ELSE SubSeq(buf, 2, Len(buf))

\* AgentRecord { name, teamId, sessionId, connectedAt, messageBuffer }
AgentRecord(t, n, meta, buf) ==
  [name |-> n, teamId |-> t, sessionId |-> meta.sessionId,
   connectedAt |-> meta.connectedAt, messageBuffer |-> buf]

\* AgentMeta = Omit<AgentRecord, 'messageBuffer'>
AgentMeta(rec) ==
  [name |-> rec.name, teamId |-> rec.teamId, sessionId |-> rec.sessionId,
   connectedAt |-> rec.connectedAt]

\* { ...meta, messageBuffer }
WithBuffer(meta, buf) ==
  [name |-> meta.name, teamId |-> meta.teamId, sessionId |-> meta.sessionId,
   connectedAt |-> meta.connectedAt, messageBuffer |-> buf]

\* `${teamId}:${agentName}`
agentKey(t, n) == <<t, n>>

\* JSON.stringify / JSON.parse of plain data: a string that is not the value
JsonStringify(v) == [json |-> v]
JsonParse(s) == s.json
\* text that JSON.parse accepts
IsJson(data) == "json" \in DOMAIN data

\* a Map / Record with key k set to v, and with key k deleted
MapSet(m, k, v) == [x \in DOMAIN m \cup {k} |-> IF x = k THEN v ELSE m[x]]
MapDel(m, k) == [x \in DOMAIN m \ {k} |-> m[x]]

EmptyMap == [x \in {} |-> 0]

\* ------------------------------------------------------------ MemoryStore
\* state: [teams : id -> TeamRecord, agents : key -> AgentRecord];
\* a miss (null) is <<>>, a hit is <<record>>

MemEmpty == [teams |-> EmptyMap, agents |-> EmptyMap]

MemCreateTeam(s, team) == [s EXCEPT !.teams = MapSet(s.teams, team.id, team)]

MemGetTeam(s, id) == IF id \in DOMAIN s.teams THEN << s.teams[id] >> ELSE << >>

\* mutant: the map keyed by session, so a reconnect adds a record
MemSaveAgentPerSession(s, rec) ==
  [s EXCEPT !.agents = MapSet(s.agents, <<rec.teamId, rec.name, rec.sessionId>>, rec)]

MemSaveAgent(s, rec) ==
  [s EXCEPT !.agents = MapSet(s.agents, agentKey(rec.teamId, rec.name), rec)]

MemGetAgent(s, t, n) ==
  IF agentKey(t, n) \in DOMAIN s.agents THEN << s.agents[agentKey(t, n)] >> ELSE << >>

\* mutant: the team filter forgotten
MemListAgentsNoFilter(s, t) == { s.agents[k] : k \in DOMAIN s.agents }

MemListAgents(s, t) ==
  { s.agents[k] : k \in { x \in DOMAIN s.agents : s.agents[x].teamId = t } }

MemRemoveAgent(s, t, n) ==
  [s EXCEPT !.agents = MapDel(s.agents, agentKey(t, n))]

\* mutant: over the cap the newest message is dropped, not the oldest
MemPushMessageDropsNewest(s, t, n, msg, maxBuffer) ==
  LET key == agentKey(t, n) IN
  IF key \notin DOMAIN s.agents THEN s
  ELSE LET pushed == Append(s.agents[key].messageBuffer, msg)
           buf == IF Len(pushed) > maxBuffer THEN SubSeq(pushed, 1, Len(pushed) - 1) ELSE pushed
       IN [s EXCEPT !.agents[key].messageBuffer = buf]

MemPushMessage(s, t, n, msg, maxBuffer) ==
  LET key == agentKey(t, n) IN
  IF key \notin DOMAIN s.agents THEN s
  ELSE LET pushed == Append(s.agents[key].messageBuffer, msg)
           buf == IF Len(pushed) > maxBuffer THEN Shift(pushed) ELSE pushed
       IN [s EXCEPT !.agents[key].messageBuffer = buf]

\* [store, ret]
MemFlushMessages(s, t, n) ==
  LET key == agentKey(t, n) IN
  IF key \notin DOMAIN s.agents THEN [store |-> s, ret |-> << >>]
  ELSE [store |-> [s EXCEPT !.agents[key].messageBuffer = << >>],
        ret |-> s.agents[key].messageBuffer]

\* ------------------------------------------------------------ VolumeStore
\* the data file: << >> while it does not exist, else << its text >>;
\* FileState = { teams, agents : key -> AgentMeta, messages : key -> Message[] }

EMPTY == [teams |-> EmptyMap, agents |-> EmptyMap, messages |-> EmptyMap]

\* load(): the parsed file, EMPTY when it cannot be read or parsed
VolLoad(file) == IF file = << >> THEN EMPTY ELSE IF IsJson(file[1]) THEN JsonParse(file[1]) ELSE EMPTY

\* save(): write the whole state to path.tmp, rename over path
VolSave(state) == << JsonStringify(state) >>

\* state.messages[key] ?? []
VolMessages(state, key) ==
  IF key \in DOMAIN state.messages THEN state.messages[key] ELSE << >>

VolCreateTeam(file, team) ==
  LET state == VolLoad(file) IN
  VolSave([state EXCEPT !.teams = MapSet(state.teams, team.id, team)])

VolGetTeam(file, id) ==
  LET state == VolLoad(file) IN
  IF id \in DOMAIN state.teams THEN << state.teams[id] >> ELSE << >>

\* mutant: the stored buffer kept when the agent is already there
VolSaveAgentKeepsBuffer(file, rec) ==
  LET key == agentKey(rec.teamId, rec.name)
      state == VolLoad(file)
  IN VolSave([state EXCEPT !.agents = MapSet(state.agents, key, AgentMeta(rec)),
                           !.messages = IF key \in DOMAIN state.messages
                                        THEN state.messages
                                        ELSE MapSet(state.messages, key, rec.messageBuffer)])

VolSaveAgent(file, rec) ==
  LET key == agentKey(rec.teamId, rec.name)
      state == VolLoad(file)
  IN VolSave([state EXCEPT !.agents = MapSet(state.agents, key, AgentMeta(rec)),
                           !.messages = MapSet(state.messages, key, rec.messageBuffer)])

VolGetAgent(file, t, n) ==
  LET state == VolLoad(file)
      key == agentKey(t, n)
  IN IF key \notin DOMAIN state.agents THEN << >>
     ELSE << WithBuffer(state.agents[key], VolMessages(state, key)) >>

VolListAgents(file, t) ==
  LET state == VolLoad(file) IN
  { WithBuffer(state.agents[k], VolMessages(state, k)) :
      k \in { x \in DOMAIN state.agents : state.agents[x].teamId = t } }

VolRemoveAgent(file, t, n) ==
  LET key == agentKey(t, n)
      state == VolLoad(file)
  IN VolSave([state EXCEPT !.agents = MapDel(state.agents, key),
                           !.messages = MapDel(state.messages, key)])

VolPushMessage(file, t, n, msg, maxBuffer) ==
  LET key == agentKey(t, n)
      state == VolLoad(file)
  IN IF key \notin DOMAIN state.agents THEN file
     ELSE LET pushed == Append(VolMessages(state, key), msg)
              buf == IF Len(pushed) > maxBuffer THEN Shift(pushed) ELSE pushed
          IN VolSave([state EXCEPT !.messages = MapSet(state.messages, key, buf)])

\* [store, ret]; the file is rewritten only when something was drained
VolFlushMessages(file, t, n) ==
  LET key == agentKey(t, n)
      state == VolLoad(file)
      msgs == VolMessages(state, key)
  IN [store |-> IF Len(msgs) > 0
                THEN VolSave([state EXCEPT !.messages = MapSet(state.messages, key, << >>)])
                ELSE file,
      ret |-> msgs]

\* ------------------------------------------------------------- RedisStore
\* the Redis server: string keys, set keys and list keys (one keyspace; the key
\* prefixes keep the three kinds apart). An empty list or set is a missing key.

RedisEmpty == [str |-> EmptyMap, set |-> EmptyMap, list |-> EmptyMap]

\* private k = { team, teams, teamHash, agent, agents, msgs }
kTeam(id) == <<"team", id, "">>
kTeams == <<"teams", "", "">>
kTeamHash(hash) == <<"teamhash", hash, "">>
kAgent(t, n) == <<"agent", t, n>>
kAgents(t) == <<"agents", t, "">>
kMsgs(t, n) == <<"msgs", t, n>>

RStr(db, k) == IF k \in DOMAIN db.str THEN << db.str[k] >> ELSE << >>
RMembers(db, k) == IF k \in DOMAIN db.set THEN db.set[k] ELSE {}
RList(db, k) == IF k \in DOMAIN db.list THEN db.list[k] ELSE << >>

\* LTRIM / LRANGE index arithmetic: negative indices count from the tail
RIndex(i, len) == IF i < 0 THEN Max(len + i, 0) ELSE i

RRange(list, start, stop) ==
  LET len == Len(list)
      lo == RIndex(start, len)
      hi == Min(IF stop < 0 THEN len + stop ELSE stop, len - 1)
  IN IF lo > hi \/ lo >= len THEN << >> ELSE SubSeq(list, lo + 1, hi + 1)

RPutList(db, k, list) ==
  IF list = << >> THEN [db EXCEPT !.list = MapDel(db.list, k)]
  ELSE [db EXCEPT !.list = MapSet(db.list, k, list)]

RPutSet(db, k, set) ==
  IF set = {} THEN [db EXCEPT !.set = MapDel(db.set, k)]
  ELSE [db EXCEPT !.set = MapSet(db.set, k, set)]

\* the commands ioredis sends
CmdSet(k, v) == [op |-> "SET", key |-> k, val |-> v]
CmdGet(k) == [op |-> "GET", key |-> k]
CmdDel(k) == [op |-> "DEL", key |-> k]
CmdExists(k) == [op |-> "EXISTS", key |-> k]
CmdSadd(k, v) == [op |-> "SADD", key |-> k, val |-> v]
CmdSrem(k, v) == [op |-> "SREM", key |-> k, val |-> v]
CmdSmembers(k) == [op |-> "SMEMBERS", key |-> k]
CmdRpush(k, v) == [op |-> "RPUSH", key |-> k, val |-> v]
CmdLrange(k, a, b) == [op |-> "LRANGE", key |-> k, start |-> a, stop |-> b]
CmdLtrim(k, a, b) == [op |-> "LTRIM", key |-> k, start |-> a, stop |-> b]

\* one command executed by the server: [db, reply]
RedisExec(db, cmd) ==
  CASE cmd.op = "SET" ->
         [db |-> [db EXCEPT !.str = MapSet(db.str, cmd.key, cmd.val)], reply |-> << >>]
    [] cmd.op = "GET" -> [db |-> db, reply |-> RStr(db, cmd.key)]
    [] cmd.op = "DEL" ->
         [db |-> [str |-> MapDel(db.str, cmd.key), set |-> MapDel(db.set, cmd.key),
                  list |-> MapDel(db.list, cmd.key)],
          reply |-> << >>]
    [] cmd.op = "EXISTS" ->
         [db |-> db,
          reply |-> cmd.key \in (DOMAIN db.str \cup DOMAIN db.set \cup DOMAIN db.list)]
    [] cmd.op = "SADD" ->
         [db |-> RPutSet(db, cmd.key, RMembers(db, cmd.key) \cup {cmd.val}), reply |-> << >>]
    [] cmd.op = "SREM" ->
         [db |-> RPutSet(db, cmd.key, RMembers(db, cmd.key) \ {cmd.val}), reply |-> << >>]
    [] cmd.op = "SMEMBERS" -> [db |-> db, reply |-> RMembers(db, cmd.key)]
    [] cmd.op = "RPUSH" ->
         [db |-> RPutList(db, cmd.key, Append(RList(db, cmd.key), cmd.val)), reply |-> << >>]
    [] cmd.op = "LRANGE" ->
         [db |-> db, reply |-> RRange(RList(db, cmd.key), cmd.start, cmd.stop)]
    [] cmd.op = "LTRIM" ->
         [db |-> RPutList(db, cmd.key, RRange(RList(db, cmd.key), cmd.start, cmd.stop)),
          reply |-> << >>]

\* pipe.exec() with no other connection in between: [db, replies]
RECURSIVE RedisPipeline(_, _)
RedisPipeline(db, cmds) ==
  IF cmds = << >> THEN [db |-> db, replies |-> << >>]
  ELSE LET r == RedisExec(db, Head(cmds))
           rest == RedisPipeline(r.db, Tail(cmds))
       IN [db |-> rest.db, replies |-> << r.reply >> \o rest.replies]

\* the pipelines of the RedisStore methods
RedSaveAgentCmds(rec) ==
  << CmdSet(kAgent(rec.teamId, rec.name), JsonStringify(AgentMeta(rec))),
     CmdSadd(kAgents(rec.teamId), rec.name),
     CmdDel(kMsgs(rec.teamId, rec.name)) >>
  \o [i \in 1 .. Len(rec.messageBuffer) |->
        CmdRpush(kMsgs(rec.teamId, rec.name), JsonStringify(rec.messageBuffer[i]))]

RedGetAgentCmds(t, n) == << CmdGet(kAgent(t, n)), CmdLrange(kMsgs(t, n), 0, -1) >>

\* mutant: the message list left behind
RedRemoveAgentCmdsKeepsMsgs(t, n) == << CmdDel(kAgent(t, n)), CmdSrem(kAgents(t), n) >>

RedRemoveAgentCmds(t, n) ==
  << CmdDel(kAgent(t, n)), CmdDel(kMsgs(t, n)), CmdSrem(kAgents(t), n) >>

\* a mutant of the push pipeline: the list is replaced, not appended to
RedPushCmdsReplace(t, n, msg, maxBuffer) ==
  << CmdDel(kMsgs(t, n)), CmdRpush(kMsgs(t, n), JsonStringify(msg)) >>

RedPushCmds(t, n, msg, maxBuffer) ==
  << CmdRpush(kMsgs(t, n), JsonStringify(msg)), CmdLtrim(kMsgs(t, n), 0 - maxBuffer, -1) >>

\* mutant: the list read but not deleted
RedFlushCmdsNoDel(t, n) == << CmdLrange(kMsgs(t, n), 0, -1) >>

RedFlushCmds(t, n) == << CmdLrange(kMsgs(t, n), 0, -1), CmdDel(kMsgs(t, n)) >>

\* msgRaws.map((r) => JSON.parse(r))
ParseAll(raws) == [i \in 1 .. Len(raws) |-> JsonParse(raws[i])]

\* getAgent's result from the replies of its pipeline
RedAgentOf(metaRaw, msgRaws) ==
  IF metaRaw = << >> THEN << >>
  ELSE << WithBuffer(JsonParse(metaRaw[1]), ParseAll(msgRaws)) >>

RedSaveAgent(db, rec) == RedisPipeline(db, RedSaveAgentCmds(rec)).db

RedGetAgent(db, t, n) ==
  LET results == RedisPipeline(db, RedGetAgentCmds(t, n)).replies
  IN RedAgentOf(results[1], results[2])

\* SMEMBERS, then one GET + LRANGE per name; a stale set entry is skipped
RedListAgents(db, t) ==
  LET names == RedisExec(db, CmdSmembers(kAgents(t))).reply
      found == { n \in names : RedGetAgent(db, t, n) # << >> }
  IN { RedGetAgent(db, t, n)[1] : n \in found }

RedRemoveAgent(db, t, n) == RedisPipeline(db, RedRemoveAgentCmds(t, n)).db

\* mutant: no existence check
RedPushMessageUnchecked(db, t, n, msg, maxBuffer) ==
  RedisPipeline(db, RedPushCmds(t, n, msg, maxBuffer)).db

RedPushMessage(db, t, n, msg, maxBuffer) ==
  IF ~RedisExec(db, CmdExists(kAgent(t, n))).reply THEN db
  ELSE RedisPipeline(db, RedPushCmds(t, n, msg, maxBuffer)).db

\* [store, ret]
RedFlushMessages(db, t, n) ==
  LET r == RedisPipeline(db, RedFlushCmds(t, n))
  IN [store |-> r.db, ret |-> ParseAll(r.replies[1])]

\* ------------------------------------------------------------------- state

VARIABLES
  mem,       \* the MemoryStore
  vol,       \* the VolumeStore's data file
  red,       \* the Redis server behind the RedisStore
  nextId,    \* the next message id uuidv4() hands out
  lastCall,  \* the call that was made last, with its arguments
  ret,       \* what it returned (store calls: per adapter, [mem, vol, red])
  live       \* the (team, name) pairs saved and not removed since

VARIABLES
  subject,          \* SpecBuffer: whose buffer is exercised: "store", "hub", "nostr"
  cap,              \* SpecBuffer: the maxBuffer every pushMessage is called with
  hist,             \* SpecBuffer: the messages buffered since the buffer was last empty
  hubClientBuffer,  \* HubClient.messageBuffer
  nostrBuffer,      \* NostrClient.messageBuffer
  knownAgents       \* NostrClient.knownAgents

VARIABLES
  conn,      \* SpecShared: per hub process, the RedisStore call in progress
  returned   \* SpecShared: message id -> how many flushMessages calls returned it

VARIABLES
  streams,      \* SpecHub: the open /agent/stream responses: id -> [key, out]
  connections,  \* SpecHub: the connections map: agent key -> stream of its pushFn
  resp,         \* SpecHub: the response to the last request
  nextStream    \* SpecHub: the next stream id (session id, clock reading)

VARIABLES
  ws,              \* SpecPublish: the socket: "none", "OPEN", "CLOSED"
  promises,        \* SpecPublish: the promises publish() returned, by call number
  pendingPublish,  \* SpecPublish: NostrClient.pendingPublish: event id -> call
  relayInbox,      \* SpecPublish: the calls whose EVENT the relay holds unanswered
  relayLog         \* SpecPublish: the OK messages with accepted = false that arrived

VARIABLES
  relayStored,   \* SpecRelay: the events the relay has accepted
  relaySubs,     \* SpecRelay: the open subscriptions: client -> filter
  inbox,         \* SpecRelay: per client, the EVENT messages on their way to it
  clientBuffer,  \* SpecRelay: per client, NostrClient.messageBuffer
  clientKnown,   \* SpecRelay: per client, NostrClient.knownAgents
  drained,       \* SpecRelay: per client, the messages flushMessages has returned
  published      \* SpecRelay: per client, the ids of the events it published

VARIABLES
  nostrOpts,  \* SpecConfigure: NostrClient.opts
  hubOpts,    \* SpecConfigure: HubClient.opts
  cfgIn       \* SpecConfigure: the options of the last configure call

VARIABLES
  wire,    \* SpecOrder: per process, the commands sent and not yet executed
  issued   \* SpecOrder: per process, the ids of the messages pushed, in call order

VARIABLES
  now,            \* SpecLifecycle: the time, in seconds
  sock,           \* SpecLifecycle: per client, the state of this.ws
  heartbeat,      \* SpecLifecycle: per client, when this.heartbeat is due, << >> if cleared
  closeCalled,    \* SpecLifecycle: per client, close() has returned and connect() was not called since
  relayPresence,  \* SpecLifecycle: per client, created_at of its latest stored presence event
  relayReq,       \* SpecLifecycle: the open subscriptions: client -> since
  lifeInbox,      \* SpecLifecycle: per client, the agent tags of the presence events on their way to it
  lifeKnown,      \* SpecLifecycle: per client, the keys of knownAgents
  late            \* SpecLifecycle: the clients that published presence after close() returned

VARIABLES
  route,          \* SpecHandler: per request, the route it came in on, "" before it arrives
  pc,             \* SpecHandler: per request, where its handler stands
  keepAlive,      \* SpecHandler: per request, the keep-alive interval is set
  resClosed,      \* SpecHandler: per request, the response has emitted 'close'
  closeListener,  \* SpecHandler: per request, res.on('close', ...) is attached
  inRegistry,     \* SpecHandler: per request, connections holds the agent's entry
  saved,          \* SpecHandler: per request, the store holds the agent's record
  lastWrite       \* SpecHandler: per request, the last keep-alive write: "none", "open", "closed"

VARIABLES
  esRead,    \* SpecReceive: per stream, how many of its events the client's onmessage has taken
  received   \* SpecReceive: the ids of the messages the client's receive has returned, in order

VARIABLES
  elapsed    \* SpecWait: call of send -> the seconds it has waited for the socket, if any

VARIABLES
  disk,       \* SpecSnapshot: the files of the volume: path -> text
  savePc,     \* SpecSnapshot: where the mutation in progress stands: "idle", "save", "writing", "written"
  saveState,  \* SpecSnapshot: << the state save() was called with >>, << >> when idle
  whole,      \* SpecSnapshot: the states that whole mutations have saved
  readerSaw,  \* SpecSnapshot: what the last reader of the data file found
  opResult    \* SpecFault: the outcome of the last store call: [status, value, substituted]

snapVars == <<disk, savePc, saveState, whole, readerSaw, opResult>>
VARIABLES
  savedConfig,  \* SpecJoin: << the configuration saveConfig() has written >>, << >> if none
  esOpen,       \* SpecJoin: hub.connect() has been called
  toolResp,     \* SpecJoin: what the last setup tool call answered
  joinPc,       \* SpecJoin: the setup call awaiting the hub: "idle", "join", "create"
  hubKeys       \* SpecJoin: the API keys the hub accepts

joinVars == <<savedConfig, esOpen, toolResp, joinPc, hubKeys>>
VARIABLES
  exported,   \* SpecExport: << what exportConfig() returned last >>, << >> before
  freshOpts   \* SpecExport: << the options of the client configured with it >>

exportVars == <<exported, freshOpts>>
storeVars == <<mem, vol, red, nextId, lastCall, ret, live>>
waitVars == <<elapsed>>
recvVars == <<esRead, received>>
handlerVars == <<route, pc, keepAlive, resClosed, closeListener, inRegistry, saved, lastWrite>>
lifeVars == <<now, sock, heartbeat, closeCalled, relayPresence, relayReq, lifeInbox, lifeKnown, late>>
orderVars == <<wire, issued>>
cfgVars == <<nostrOpts, hubOpts, cfgIn>>
pubVars == <<ws, promises, pendingPublish, relayInbox, relayLog>>
relayVars == <<relayStored, relaySubs, inbox, clientBuffer, clientKnown, drained, published>>
bufVars == <<subject, cap, hist, hubClientBuffer, nostrBuffer, knownAgents>>
sharedVars == <<conn, returned>>
hubVars == <<streams, connections, resp, nextStream>>
vars == <<storeVars, bufVars, sharedVars, hubVars, pubVars, relayVars, cfgVars, orderVars, lifeVars, handlerVars, recvVars, waitVars, snapVars, joinVars, exportVars>>

\* msg(from, to, id) of the contract suite
AgentMessage(id, from, to) == [id |-> id, from |-> from, to |-> to]

TestMsg(id) == AgentMessage(id, "alice", "bob")

TestBuffer(lo, k) == [i \in 1 .. k |-> TestMsg(lo + i - 1)]

NoRet == [mem |-> << >>, vol |-> << >>, red |-> << >>]

\* the call made, and whether the MemoryStore held the agent (and how many
\* messages) when it was made
Call(op, t, n, arg) ==
  [op |-> op, t |-> t, n |-> n, arg |-> arg,
   had |-> MemGetAgent(mem, t, n) # << >>,
   len |-> IF MemGetAgent(mem, t, n) = << >> THEN 0
           ELSE Len(MemGetAgent(mem, t, n)[1].messageBuffer)]

NoCall == [op |-> "none", t |-> "", n |-> "", arg |-> << >>, had |-> FALSE, len |-> 0]

\* fresh, empty stores
StoreInit ==
  /\ mem = MemEmpty
  /\ vol = << >>
  /\ red = RedisEmpty
  /\ nextId = 1
  /\ lastCall = NoCall
  /\ ret = NoRet
  /\ live = {}

\* the client-side buffers of SpecBuffer, not in use
BufIdle ==
  /\ subject = "none"
  /\ cap = 0
  /\ hist = << >>
  /\ hubClientBuffer = << >>
  /\ nostrBuffer = << >>
  /\ knownAgents = EmptyMap

\* sse.maxMessageBufferSize, by default
MAX_BUFFER == 100

\* the hub processes sharing one Redis server
Procs == {"hub1", "hub2"}

IdleConn == [op |-> "idle", pending |-> << >>, replies |-> << >>, msg |-> << >>]

\* no RedisStore call in progress
SharedIdle ==
  /\ conn = [p \in Procs |-> IdleConn]
  /\ returned = EmptyMap

NoResp == [status |-> 0, deliveredTo |-> 0, messageId |-> 0]

\* the hub with nothing connected
HubIdle ==
  /\ streams = EmptyMap
  /\ connections = EmptyMap
  /\ resp = NoResp
  /\ nextStream = 1

\* ------------------------------------------------- the store contract (Spec)

StoreFrame == UNCHANGED <<bufVars, sharedVars, hubVars, pubVars, relayVars, cfgVars, orderVars, lifeVars, handlerVars, recvVars, waitVars, snapVars, joinVars, exportVars>>

\* store.saveAgent(rec), the buffer made of k new messages
SaveAgent(t, n, meta, k) ==
  /\ nextId + k - 1 <= MaxMsgs
  /\ LET rec == AgentRecord(t, n, meta, TestBuffer(nextId, k)) IN
       /\ mem' = MemSaveAgent(mem, rec)
       /\ vol' = VolSaveAgent(vol, rec)
       /\ red' = RedSaveAgent(red, rec)
       /\ lastCall' = Call("saveAgent", t, n, rec)
  /\ nextId' = nextId + k
  /\ ret' = NoRet
  /\ live' = live \cup {<<t, n>>}
  /\ StoreFrame

\* store.removeAgent(t, n)
RemoveAgent(t, n) ==
  /\ mem' = MemRemoveAgent(mem, t, n)
  /\ vol' = VolRemoveAgent(vol, t, n)
  /\ red' = RedRemoveAgent(red, t, n)
  /\ lastCall' = Call("removeAgent", t, n, << >>)
  /\ ret' = NoRet
  /\ live' = live \ {<<t, n>>}
  /\ UNCHANGED nextId
  /\ StoreFrame

\* store.pushMessage(t, n, msg, maxBuffer) with a new message
PushMessage(t, n, maxBuffer) ==
  /\ nextId <= MaxMsgs
  /\ LET msg == TestMsg(nextId) IN
       /\ mem' = MemPushMessage(mem, t, n, msg, maxBuffer)
       /\ vol' = VolPushMessage(vol, t, n, msg, maxBuffer)
       /\ red' = RedPushMessage(red, t, n, msg, maxBuffer)
       /\ lastCall' = Call("pushMessage", t, n, [msg |-> msg, maxBuffer |-> maxBuffer])
  /\ nextId' = nextId + 1
  /\ ret' = NoRet
  /\ UNCHANGED live
  /\ StoreFrame

\* a NostrClient just constructed
PubIdle ==
  /\ ws = "none"
  /\ promises = EmptyMap
  /\ pendingPublish = EmptyMap
  /\ relayInbox = {}
  /\ relayLog = {}

\* the NostrClients on one relay
RelayClients == {"aliceA", "bobA", "aliceB"}

\* a relay nobody is connected to, clients just constructed
RelayIdle ==
  /\ relayStored = {}
  /\ relaySubs = EmptyMap
  /\ inbox = [c \in RelayClients |-> << >>]
  /\ clientBuffer = [c \in RelayClients |-> << >>]
  /\ clientKnown = [c \in RelayClients |-> EmptyMap]
  /\ drained = [c \in RelayClients |-> {}]
  /\ published = [c \in RelayClients |-> {}]

\* a field that is absent (undefined)
Undef == "<undefined>"

\* what configure can be handed: each field present or absent
Options(agentName, relayUrl, hubUrl, teamId, apiKey, privateKey) ==
  [teamId |-> teamId, agentName |-> agentName, relayUrl |-> relayUrl, hubUrl |-> hubUrl,
   apiKey |-> apiKey, privateKey |-> privateKey]

\* both clients as the tool layer constructs them, no configure call yet
CfgIdle ==
  /\ nostrOpts = [teamId |-> Undef, agentName |-> "", relayUrl |-> "wss://old", privateKey |-> Undef]
  /\ hubOpts = Options("", Undef, "http://old", Undef, "", Undef)
  /\ cfgIn = Options(Undef, Undef, Undef, Undef, Undef, Undef)

\* no command on its way to the Redis server
OrderIdle ==
  /\ wire = [p \in Procs |-> << >>]
  /\ issued = [p \in Procs |-> << >>]

\* the NostrClients of SpecLifecycle, both of team t1
LifeClients == {"alice", "bob"}

\* two clients just constructed, a relay that holds nothing
LifeIdle ==
  /\ now = 0
  /\ sock = [c \in LifeClients |-> "none"]
  /\ heartbeat = [c \in LifeClients |-> << >>]
  /\ closeCalled = [c \in LifeClients |-> FALSE]
  /\ relayPresence = EmptyMap
  /\ relayReq = EmptyMap
  /\ lifeInbox = [c \in LifeClients |-> {}]
  /\ lifeKnown = [c \in LifeClients |-> {}]
  /\ late = {}

\* the requests of SpecHandler, each of an agent of its own
Requests == {"r1", "r2"}

\* no request has arrived
HandlerIdle ==
  /\ route = [r \in Requests |-> ""]
  /\ pc = [r \in Requests |-> "idle"]
  /\ keepAlive = [r \in Requests |-> FALSE]
  /\ resClosed = [r \in Requests |-> FALSE]
  /\ closeListener = [r \in Requests |-> FALSE]
  /\ inRegistry = [r \in Requests |-> FALSE]
  /\ saved = [r \in Requests |-> FALSE]
  /\ lastWrite = [r \in Requests |-> "none"]

\* nothing read, nothing received
RecvIdle ==
  /\ esRead = [sid \in 1 .. MaxStreams |-> 0]
  /\ received = << >>

\* no send has waited
WaitIdle == elapsed = EmptyMap

\* no file, no mutation in progress
SnapIdle ==
  /\ disk = EmptyMap
  /\ savePc = "idle"
  /\ saveState = << >>
  /\ whole = {}
  /\ readerSaw = << >>
  /\ opResult = << >>

\* no setup tool has been called; the hub has one team
JoinIdle ==
  /\ savedConfig = << >>
  /\ esOpen = FALSE
  /\ toolResp = [agentName |-> "", apiKey |-> "", answer |-> "none"]
  /\ joinPc = "idle"
  /\ hubKeys = {"team1"}

\* nothing exported
ExportIdle == exported = << >> /\ freshOpts = << >>

\* the components a specification leaves alone
Idle == SharedIdle /\ HubIdle /\ PubIdle /\ RelayIdle /\ CfgIdle /\ OrderIdle /\ LifeIdle /\ HandlerIdle /\ RecvIdle /\ WaitIdle /\ SnapIdle /\ JoinIdle /\ ExportIdle

\* store.flushMessages(t, n)
FlushMessages(t, n) ==
  /\ mem' = MemFlushMessages(mem, t, n).store
  /\ vol' = VolFlushMessages(vol, t, n).store
  /\ red' = RedFlushMessages(red, t, n).store
  /\ lastCall' = Call("flushMessages", t, n, << >>)
  /\ ret' = [mem |-> MemFlushMessages(mem, t, n).ret,
             vol |-> VolFlushMessages(vol, t, n).ret,
             red |-> RedFlushMessages(red, t, n).ret]
  /\ UNCHANGED <<nextId, live>>
  /\ StoreFrame

Init == StoreInit /\ BufIdle /\ Idle

Next ==
  \/ \E key \in Keys, meta \in Metas, k \in SaveLens : SaveAgent(key[1], key[2], meta, k)
  \/ \E key \in Keys : RemoveAgent(key[1], key[2])
  \/ \E key \in Keys, maxBuffer \in Caps : PushMessage(key[1], key[2], maxBuffer)
  \/ \E key \in Keys : FlushMessages(key[1], key[2])

Spec == Init /\ [][Next]_vars

\* --------------------------------------------------- client-side transports

\* HubClient: es.onmessage, the data of one SSE event (malformed data is ignored)
SseData(msg) == JsonStringify(msg)
SseMalformed == [garbage |-> TRUE]

HubOnMessageBuffer(buf, data) == IF IsJson(data) THEN Append(buf, JsonParse(data)) ELSE buf

\* flushMessages() of HubClient and of NostrClient: [buffer, ret]
ClientFlush(buf) == [buffer |-> << >>, ret |-> buf]

AGENT_MSG_KIND == 1337
PRESENCE_KIND == 1338

\* event.tags.find(t => t[0] === name)?.[1], "" when there is none
RECURSIVE TagValue(_, _)
TagValue(tags, name) ==
  IF tags = << >> THEN ""
  ELSE IF Head(tags)[1] = name THEN Head(tags)[2]
  ELSE TagValue(Tail(tags), name)

\* the events a peer's send() and publishPresence() sign
MessageEvent(id, team, from, to, type) ==
  [id |-> id, kind |-> AGENT_MSG_KIND, created_at |-> 1, content |-> "c",
   tags |-> << <<"t", team>>, <<"agent-from", from>>, <<"agent-to", to>>, <<"msg-type", type>> >>]

PresenceEvent(id, team, name) ==
  [id |-> id, kind |-> PRESENCE_KIND, created_at |-> 1, content |-> "",
   tags |-> << <<"t", team>>, <<"agent", name>> >>]

\* an event of the message kind that lacks the agent-to tag
UntaggedEvent(id, team, from) ==
  [id |-> id, kind |-> AGENT_MSG_KIND, created_at |-> 1, content |-> "c",
   tags |-> << <<"t", team>>, <<"agent-from", from>>, <<"msg-type", "todo">> >>]

\* an event of any kind with the given tags after the team tag
TaggedEvent(id, team, kind, tags) ==
  [id |-> id, kind |-> kind, created_at |-> 1, content |-> "c",
   tags |-> << <<"t", team>> >> \o tags]

AgentInfo(name, event) ==
  [name |-> name, connectedAt |-> event.created_at * 1000, pendingMessages |-> 0]

\* a mutant of handleEvent: no check of the recipient
HandleEventAnyRecipient(buf, known, agentName, event) ==
  IF event.kind = PRESENCE_KIND THEN
    LET agent == TagValue(event.tags, "agent") IN
    [messageBuffer |-> buf,
     knownAgents |-> IF agent # "" THEN MapSet(known, agent, AgentInfo(agent, event)) ELSE known]
  ELSE IF event.kind = AGENT_MSG_KIND THEN
    LET from == TagValue(event.tags, "agent-from")
        to == TagValue(event.tags, "agent-to")
        msgType == TagValue(event.tags, "msg-type")
    IN IF from = "" \/ to = "" \/ msgType = "" THEN [messageBuffer |-> buf, knownAgents |-> known]
       ELSE [messageBuffer |->
               Append(buf, [id |-> event.id, from |-> from, to |-> to, type |-> msgType,
                            content |-> event.content,
                            timestamp |-> event.created_at * 1000]),
             knownAgents |-> MapSet(known, from, AgentInfo(from, event))]
  ELSE [messageBuffer |-> buf, knownAgents |-> known]

\* a mutant of handleEvent: the sender is noted only when the message is for this agent
HandleEventKnowsOwnSenders(buf, known, agentName, event) ==
  IF event.kind = PRESENCE_KIND THEN
    LET agent == TagValue(event.tags, "agent") IN
    [messageBuffer |-> buf,
     knownAgents |-> IF agent # "" THEN MapSet(known, agent, AgentInfo(agent, event)) ELSE known]
  ELSE IF event.kind = AGENT_MSG_KIND THEN
    LET from == TagValue(event.tags, "agent-from")
        to == TagValue(event.tags, "agent-to")
        msgType == TagValue(event.tags, "msg-type")
    IN IF from = "" \/ to = "" \/ msgType = "" THEN [messageBuffer |-> buf, knownAgents |-> known]
       ELSE IF to # agentName /\ to # "broadcast" THEN [messageBuffer |-> buf, knownAgents |-> known]
       ELSE [messageBuffer |->
               Append(buf, [id |-> event.id, from |-> from, to |-> to, type |-> msgType,
                            content |-> event.content,
                            timestamp |-> event.created_at * 1000]),
             knownAgents |-> MapSet(known, from, AgentInfo(from, event))]
  ELSE [messageBuffer |-> buf, knownAgents |-> known]

\* NostrClient.handleEvent: [messageBuffer, knownAgents]
HandleEvent(buf, known, agentName, event) ==
  IF event.kind = PRESENCE_KIND THEN
    LET agent == TagValue(event.tags, "agent") IN
    [messageBuffer |-> buf,
     knownAgents |-> IF agent # "" THEN MapSet(known, agent, AgentInfo(agent, event)) ELSE known]
  ELSE IF event.kind = AGENT_MSG_KIND THEN
    LET from == TagValue(event.tags, "agent-from")
        to == TagValue(event.tags, "agent-to")
        msgType == TagValue(event.tags, "msg-type")
    IN IF from = "" \/ to = "" \/ msgType = "" THEN [messageBuffer |-> buf, knownAgents |-> known]
       ELSE [messageBuffer |->
               IF to # agentName /\ to # "broadcast" THEN buf
               ELSE Append(buf, [id |-> event.id, from |-> from, to |-> to, type |-> msgType,
                                 content |-> event.content,
                                 timestamp |-> event.created_at * 1000]),
             knownAgents |-> MapSet(known, from, AgentInfo(from, event))]
  ELSE [messageBuffer |-> buf, knownAgents |-> known]

\* ------------------------------------------- one buffer at a time (SpecBuffer)
\* subject "store": agent bob of team t1 in the three adapters, every
\* pushMessage with the same cap; subject "hub" / "nostr": the client's buffer.

BufCaps == 1 .. MaxCap

BufFrame == UNCHANGED <<live, subject, cap, sharedVars, hubVars, pubVars, relayVars, cfgVars, orderVars, lifeVars, handlerVars, recvVars, waitVars, snapVars, joinVars, exportVars>>

\* the events delivered to the NostrClient of agent bob
EventShapes == {"direct", "broadcast", "other", "untagged", "presence",
                "nofrom", "notype", "otherkind"}

BufEvent(shape, id) ==
  CASE shape = "direct" -> MessageEvent(id, "t1", "alice", "bob", "todo")
    [] shape = "broadcast" -> MessageEvent(id, "t1", "alice", "broadcast", "todo")
    [] shape = "other" -> MessageEvent(id, "t1", "alice", "carol", "todo")
    [] shape = "untagged" -> UntaggedEvent(id, "t1", "alice")
    [] shape = "presence" -> PresenceEvent(id, "t1", "alice")
    [] shape = "nofrom" ->
         TaggedEvent(id, "t1", AGENT_MSG_KIND, << <<"agent-to", "bob">>, <<"msg-type", "todo">> >>)
    [] shape = "notype" ->
         TaggedEvent(id, "t1", AGENT_MSG_KIND, << <<"agent-from", "alice">>, <<"agent-to", "bob">> >>)
    [] shape = "otherkind" ->
         TaggedEvent(id, "t1", 1, << <<"agent-from", "alice">>, <<"agent-to", "bob">>,
                                     <<"msg-type", "todo">> >>)

BufInit ==
  /\ \/ subject = "store" /\ cap \in BufCaps
     \/ subject \in {"hub", "nostr"} /\ cap = 0
  /\ LET rec == AgentRecord("t1", "bob", [sessionId |-> "s1", connectedAt |-> 1], << >>) IN
       /\ mem = MemSaveAgent(MemEmpty, rec)
       /\ vol = VolSaveAgent(<< >>, rec)
       /\ red = RedSaveAgent(RedisEmpty, rec)
  /\ nextId = 1
  /\ lastCall = NoCall
  /\ ret = NoRet
  /\ live = {<<"t1", "bob">>}
  /\ hist = << >>
  /\ hubClientBuffer = << >>
  /\ nostrBuffer = << >>
  /\ knownAgents = EmptyMap
  /\ Idle

\* store.pushMessage("t1", n, msg, cap)
BufPushMessage(n) ==
  /\ subject = "store"
  /\ nextId <= MaxPushes
  /\ LET msg == TestMsg(nextId) IN
       /\ mem' = MemPushMessage(mem, "t1", n, msg, cap)
       /\ vol' = VolPushMessage(vol, "t1", n, msg, cap)
       /\ red' = RedPushMessage(red, "t1", n, msg, cap)
       /\ lastCall' = Call("pushMessage", "t1", n, [msg |-> msg, maxBuffer |-> cap])
       /\ hist' = IF n = "bob" THEN Append(hist, msg) ELSE hist
  /\ nextId' = nextId + 1
  /\ ret' = NoRet
  /\ UNCHANGED <<hubClientBuffer, nostrBuffer, knownAgents>>
  /\ BufFrame

\* store.flushMessages("t1", n)
BufFlushMessages(n) ==
  /\ subject = "store"
  /\ mem' = MemFlushMessages(mem, "t1", n).store
  /\ vol' = VolFlushMessages(vol, "t1", n).store
  /\ red' = RedFlushMessages(red, "t1", n).store
  /\ lastCall' = Call("flushMessages", "t1", n, << >>)
  /\ ret' = [mem |-> MemFlushMessages(mem, "t1", n).ret,
             vol |-> VolFlushMessages(vol, "t1", n).ret,
             red |-> RedFlushMessages(red, "t1", n).ret]
  /\ hist' = IF n = "bob" THEN << >> ELSE hist
  /\ UNCHANGED <<nextId, hubClientBuffer, nostrBuffer, knownAgents>>
  /\ BufFrame

\* HubClient: es.onmessage with well-formed or malformed event data
HubOnMessage(wellFormed) ==
  /\ subject = "hub"
  /\ nextId <= MaxPushes
  /\ LET data == IF wellFormed THEN SseData(AgentMessage(nextId, "alice", "bob"))
                 ELSE SseMalformed
     IN /\ hubClientBuffer' = HubOnMessageBuffer(hubClientBuffer, data)
        /\ hist' = IF IsJson(data) THEN Append(hist, JsonParse(data)) ELSE hist
        /\ lastCall' = Call("onmessage", "", "", data)
  /\ nextId' = nextId + 1
  /\ ret' = NoRet
  /\ UNCHANGED <<mem, vol, red, nostrBuffer, knownAgents>>
  /\ BufFrame

\* HubClient.flushMessages()
HubFlushMessages ==
  /\ subject = "hub"
  /\ hubClientBuffer' = ClientFlush(hubClientBuffer).buffer
  /\ ret' = ClientFlush(hubClientBuffer).ret
  /\ hist' = << >>
  /\ lastCall' = Call("flushMessages", "", "", << >>)
  /\ UNCHANGED <<mem, vol, red, nextId, nostrBuffer, knownAgents>>
  /\ BufFrame

\* NostrClient of agent bob: an EVENT frame arrives
NostrOnEvent(shape) ==
  /\ subject = "nostr"
  /\ nextId <= MaxPushes
  /\ LET event == BufEvent(shape, nextId)
         r == HandleEvent(nostrBuffer, knownAgents, "bob", event)
     IN
       /\ nostrBuffer' = r.messageBuffer
       /\ knownAgents' = r.knownAgents
       /\ hist' = IF Len(r.messageBuffer) > Len(nostrBuffer)
                  THEN Append(hist, r.messageBuffer[Len(r.messageBuffer)]) ELSE hist
       /\ lastCall' = Call("handleEvent", "", "", event)
  /\ nextId' = nextId + 1
  /\ ret' = NoRet
  /\ UNCHANGED <<mem, vol, red, hubClientBuffer>>
  /\ BufFrame

\* NostrClient.flushMessages()
NostrFlushMessages ==
  /\ subject = "nostr"
  /\ nostrBuffer' = ClientFlush(nostrBuffer).buffer
  /\ ret' = ClientFlush(nostrBuffer).ret
  /\ hist' = << >>
  /\ lastCall' = Call("flushMessages", "", "", << >>)
  /\ UNCHANGED <<mem, vol, red, nextId, hubClientBuffer, knownAgents>>
  /\ BufFrame

BufNext ==
  \/ \E n \in {"bob", "nobody"} : BufPushMessage(n)
  \/ \E n \in {"bob", "nobody"} : BufFlushMessages(n)
  \/ \E wellFormed \in BOOLEAN : HubOnMessage(wellFormed)
  \/ HubFlushMessages
  \/ \E shape \in EventShapes : NostrOnEvent(shape)
  \/ NostrFlushMessages

SpecBuffer == BufInit /\ [][BufNext]_vars

\* ----------------------------------------------------- reads of the adapters

\* getAgent(t, n) in each adapter
GetAgentIn(m, v, r, t, n) ==
  [mem |-> MemGetAgent(m, t, n), vol |-> VolGetAgent(v, t, n), red |-> RedGetAgent(r, t, n)]

\* listAgents(t) in each adapter
ListAgentsIn(m, v, r, t) ==
  [mem |-> MemListAgents(m, t), vol |-> VolListAgents(v, t), red |-> RedListAgents(r, t)]

\* what flushMessages(t, n) would return in each adapter
FlushIn(m, v, r, t, n) ==
  [mem |-> MemFlushMessages(m, t, n).ret, vol |-> VolFlushMessages(v, t, n).ret,
   red |-> RedFlushMessages(r, t, n).ret]

Adapters == {"mem", "vol", "red"}

\* the buffer getAgent returns, << >> for a miss
BufferOf(got) == IF got = << >> THEN << >> ELSE got[1].messageBuffer

\* ------------------------------ RedisStore shared by two processes (SpecShared)
\* Each hub process has its own connection.  The server executes one command
\* at a time; the commands of one pipeline run in order, those of different
\* connections interleave.  An await resumes when its replies are all in.

SharedFrame == UNCHANGED <<mem, vol, lastCall, ret, live, bufVars, hubVars, pubVars, relayVars, cfgVars, orderVars, lifeVars, handlerVars, recvVars, waitVars, snapVars, joinVars, exportVars>>

SharedInit ==
  /\ mem = MemEmpty
  /\ vol = << >>
  /\ red = RedSaveAgent(RedisEmpty,
             AgentRecord("t1", "bob", [sessionId |-> "s1", connectedAt |-> 1], << >>))
  /\ nextId = 1
  /\ lastCall = NoCall
  /\ ret = NoRet
  /\ live = {<<"t1", "bob">>}
  /\ BufIdle
  /\ Idle

\* process p calls pushMessage("t1", "bob", msg, MAX_BUFFER): EXISTS is sent
SharedCallPush(p) ==
  /\ conn[p].op = "idle"
  /\ nextId <= MaxShared
  /\ conn' = [conn EXCEPT ![p] = [op |-> "pushExists",
                                  pending |-> << CmdExists(kAgent("t1", "bob")) >>,
                                  replies |-> << >>,
                                  msg |-> << TestMsg(nextId) >>]]
  /\ nextId' = nextId + 1
  /\ UNCHANGED <<red, returned>>
  /\ SharedFrame

\* process p calls flushMessages("t1", "bob"): the pipeline is sent
SharedCallFlush(p) ==
  /\ conn[p].op = "idle"
  /\ conn' = [conn EXCEPT ![p] = [op |-> "flush",
                                  pending |-> RedFlushCmds("t1", "bob"),
                                  replies |-> << >>,
                                  msg |-> << >>]]
  /\ UNCHANGED <<red, nextId, returned>>
  /\ SharedFrame

\* process p calls removeAgent("t1", "bob") (the agent's stream closed): the
\* pipeline is sent
SharedCallRemove(p) ==
  /\ conn[p].op = "idle"
  /\ conn' = [conn EXCEPT ![p] = [op |-> "remove",
                                  pending |-> RedRemoveAgentCmds("t1", "bob"),
                                  replies |-> << >>,
                                  msg |-> << >>]]
  /\ UNCHANGED <<red, nextId, returned>>
  /\ SharedFrame

\* removeAgent resumes after `await pipe.exec()` and returns
RemoveReturn(p) ==
  /\ conn[p].op = "remove" /\ conn[p].pending = << >>
  /\ conn' = [conn EXCEPT ![p] = IdleConn]
  /\ UNCHANGED <<red, nextId, returned>>
  /\ SharedFrame

\* the server executes the next command of p's connection
ServerExec(p) ==
  /\ conn[p].pending # << >>
  /\ LET r == RedisExec(red, Head(conn[p].pending)) IN
       /\ red' = r.db
       /\ conn' = [conn EXCEPT ![p].pending = Tail(@),
                               ![p].replies = Append(@, r.reply)]
  /\ UNCHANGED <<nextId, returned>>
  /\ SharedFrame

\* pushMessage resumes after `await this.client.exists(...)`
PushAfterExists(p) ==
  /\ conn[p].op = "pushExists" /\ conn[p].pending = << >>
  /\ conn' = [conn EXCEPT ![p] =
                IF ~conn[p].replies[1] THEN IdleConn
                ELSE [op |-> "pushPipe",
                      pending |-> RedPushCmds("t1", "bob", conn[p].msg[1], MAX_BUFFER),
                      replies |-> << >>,
                      msg |-> conn[p].msg]]
  /\ UNCHANGED <<red, nextId, returned>>
  /\ SharedFrame

\* pushMessage resumes after `await pipe.exec()` and returns
PushReturn(p) ==
  /\ conn[p].op = "pushPipe" /\ conn[p].pending = << >>
  /\ conn' = [conn EXCEPT ![p] = IdleConn]
  /\ UNCHANGED <<red, nextId, returned>>
  /\ SharedFrame

\* flushMessages resumes after `await pipe.exec()` and returns the parsed list
FlushReturn(p) ==
  /\ conn[p].op = "flush" /\ conn[p].pending = << >>
  /\ LET msgs == ParseAll(conn[p].replies[1])
         ids == { msgs[i].id : i \in 1 .. Len(msgs) }
     IN returned' = [id \in DOMAIN returned \cup ids |->
                       (IF id \in DOMAIN returned THEN returned[id] ELSE 0)
                       + (IF id \in ids THEN 1 ELSE 0)]
  /\ conn' = [conn EXCEPT ![p] = IdleConn]
  /\ UNCHANGED <<red, nextId>>
  /\ SharedFrame

SharedNext ==
  \/ \E p \in Procs : SharedCallPush(p)
  \/ \E p \in Procs : SharedCallFlush(p)
  \/ \E p \in Procs : SharedCallRemove(p)
  \/ \E p \in Procs : RemoveReturn(p)
  \/ \E p \in Procs : ServerExec(p)
  \/ \E p \in Procs : PushAfterExists(p)
  \/ \E p \in Procs : PushReturn(p)
  \/ \E p \in Procs : FlushReturn(p)

SpecShared == SharedInit /\ [][SharedNext]_vars

\* ------------------------------------------------ the hub's routes (SpecHub)
\* The hub runs on the MemoryStore, whose methods resolve without I/O: a
\* handler's awaits are microtasks, so each handler runs to its end before
\* the next request or close event is taken up.

\* who opens streams, who sends, and to whom
StreamKeys == {<<"t1", "alice">>, <<"t1", "bob">>, <<"t1", "carol">>, <<"t2", "alice">>}
SseKeys == {<<"t1", "bob">>}
Senders == {<<"t1", "alice">>, <<"t2", "bob">>}
Recipients == {"bob", "broadcast"}

HubFrame == UNCHANGED <<vol, red, ret, live, bufVars, sharedVars, pubVars, relayVars, cfgVars, orderVars, lifeVars, handlerVars, recvVars, waitVars, snapVars, joinVars, exportVars>>

\* the request handled last; of a send, with its sender and recipient
HubCall(op, t, n, arg) == [op |-> op, t |-> t, n |-> n, arg |-> arg]

Response(status, deliveredTo, messageId) ==
  [status |-> status, deliveredTo |-> deliveredTo, messageId |-> messageId]

\* requireAuth: the api key names a team of the store
Authorized(t) == MemGetTeam(mem, t) # << >>

\* mutant: the sender is not filtered out
BroadcastTargetsWithSender(s, t, from) == MemListAgents(s, t)

\* (await store.listAgents(teamId)).filter((a) => a.name !== auth.agentName)
BroadcastTargets(s, t, from) == { a \in MemListAgents(s, t) : a.name # from }

\* mutant: the name looked up in every team
DirectTargetsAnyTeam(s, t, to) == { s.agents[k] : k \in { x \in DOMAIN s.agents : x[2] = to } }

\* [await store.getAgent(teamId, to)].filter(Boolean)
DirectTargets(s, t, to) ==
  IF MemGetAgent(s, t, to) = << >> THEN {} ELSE { MemGetAgent(s, t, to)[1] }

Targets(s, t, from, to) ==
  IF to = "broadcast" THEN BroadcastTargets(s, t, from) ELSE DirectTargets(s, t, to)

\* mutant: the push keyed by the target's name alone, whatever the team
PushToAllAnyTeam(s, t, targets, message) ==
  [s EXCEPT !.agents =
     [k \in DOMAIN s.agents |->
        IF \E a \in targets : a.name = k[2]
        THEN [s.agents[k] EXCEPT !.messageBuffer = Append(@, message)]
        ELSE s.agents[k]]]

\* the loop's store.pushMessage(teamId, target.name, message, MAX_BUFFER)
RECURSIVE PushToAll(_, _, _, _)
PushToAll(s, t, targets, message) ==
  IF targets = {} THEN s
  ELSE LET target == CHOOSE a \in targets : TRUE
       IN PushToAll(MemPushMessage(s, t, target.name, message, MAX_BUFFER),
                    t, targets \ {target}, message)

\* mutant: every open stream of a target written to, registered or not
WriteToAllOpen(t, targets, message) ==
  [sid \in DOMAIN streams |->
     IF \E a \in targets : streams[sid].key = agentKey(t, a.name)
     THEN [streams[sid] EXCEPT !.out = Append(@, JsonStringify(message))]
     ELSE streams[sid]]

\* the loop's connections.get(key)?.(message): pushFn writes to its response
WriteToAll(t, targets, message) ==
  LET sids == { connections[agentKey(t, a.name)] :
                  a \in { x \in targets : agentKey(t, x.name) \in DOMAIN connections } }
  IN [sid \in DOMAIN streams |->
        IF sid \in sids
        THEN [streams[sid] EXCEPT !.out = Append(@, JsonStringify(message))]
        ELSE streams[sid]]

\* the loop `for (const target of targets)` step by step, with the calls it
\* makes in order: st = [store, streams, log]
RECURSIVE DeliverLoop(_, _, _, _)
DeliverLoop(st, t, targets, message) ==
  IF targets = {} THEN st
  ELSE LET target == CHOOSE a \in targets : TRUE
           key == agentKey(t, target.name)
           registered == key \in DOMAIN connections
       IN DeliverLoop(
            [store |-> MemPushMessage(st.store, t, target.name, message, MAX_BUFFER),
             streams |-> IF registered
                         THEN [st.streams EXCEPT ![connections[key]].out =
                                                    Append(@, JsonStringify(message))]
                         ELSE st.streams,
             log |-> st.log \o << [op |-> "pushMessage", name |-> target.name] >>
                            \o (IF registered
                                THEN << [op |-> "pushFn", name |-> target.name] >>
                                ELSE << >>)],
            t, targets \ {target}, message)

\* POST /team/create
HubCreateTeam(t) ==
  /\ t \notin DOMAIN mem.teams
  /\ mem' = MemCreateTeam(mem, [id |-> t, apiKeyHash |-> t, createdAt |-> 0])
  /\ resp' = Response(201, 0, 0)
  /\ lastCall' = HubCall("create", "", "", "")
  /\ UNCHANGED <<streams, connections, nextStream, nextId>>
  /\ HubFrame

\* GET /agent/stream
HubStream(t, n) ==
  /\ nextStream <= MaxStreams
  /\ lastCall' = HubCall("stream", "", "", "")
  /\ IF ~Authorized(t)
     THEN /\ resp' = Response(401, 0, 0)
          /\ UNCHANGED <<mem, streams, connections, nextStream>>
     ELSE LET existing == MemGetAgent(mem, t, n)
              buf == IF existing = << >> THEN << >> ELSE existing[1].messageBuffer
              meta == [sessionId |-> nextStream, connectedAt |-> nextStream]
          IN /\ mem' = MemSaveAgent(mem, AgentRecord(t, n, meta, buf))
             /\ streams' = MapSet(streams, nextStream,
                                  [key |-> agentKey(t, n), out |-> << >>, route |-> "stream"])
             /\ connections' = MapSet(connections, agentKey(t, n), nextStream)
             /\ resp' = Response(200, 0, 0)
             /\ nextStream' = nextStream + 1
  /\ UNCHANGED nextId
  /\ HubFrame

\* GET /sse: the MCP-over-SSE endpoint
HubSse(t, n) ==
  /\ nextStream <= MaxStreams
  /\ lastCall' = HubCall("sse", "", "", "")
  /\ IF ~Authorized(t)
     THEN /\ resp' = Response(401, 0, 0)
          /\ UNCHANGED <<mem, streams, nextStream>>
     ELSE IF Cardinality(MemListAgents(mem, t)) >= maxAgents
     THEN /\ resp' = Response(429, 0, 0)
          /\ UNCHANGED <<mem, streams, nextStream>>
     ELSE LET meta == [sessionId |-> nextStream, connectedAt |-> nextStream]
          IN /\ mem' = MemSaveAgent(mem, AgentRecord(t, n, meta, << >>))
             /\ streams' = MapSet(streams, nextStream,
                                  [key |-> agentKey(t, n), out |-> << >>, route |-> "sse"])
             /\ resp' = Response(200, 0, 0)
             /\ nextStream' = nextStream + 1
  /\ UNCHANGED <<connections, nextId>>
  /\ HubFrame

\* res.on('close') of an open /sse response
HubSseClose(sid) ==
  /\ sid \in DOMAIN streams
  /\ streams[sid].route = "sse"
  /\ LET key == streams[sid].key IN mem' = MemRemoveAgent(mem, key[1], key[2])
  /\ streams' = MapDel(streams, sid)
  /\ lastCall' = HubCall("close", "", "", "")
  /\ UNCHANGED <<connections, resp, nextStream, nextId>>
  /\ HubFrame

\* res.on('close') of an open stream
HubClose(sid) ==
  /\ sid \in DOMAIN streams
  /\ streams[sid].route = "stream"
  /\ LET key == streams[sid].key IN
       /\ connections' = MapDel(connections, key)
       /\ mem' = MemRemoveAgent(mem, key[1], key[2])
  /\ streams' = MapDel(streams, sid)
  /\ lastCall' = HubCall("close", "", "", "")
  /\ UNCHANGED <<resp, nextStream, nextId>>
  /\ HubFrame

\* POST /agent/send
HubSend(t, from, to) ==
  /\ nextId <= MaxSends
  /\ lastCall' = HubCall("send", t, from, to)
  /\ IF ~Authorized(t)
     THEN /\ resp' = Response(401, 0, 0)
          /\ UNCHANGED <<mem, streams, nextId>>
     ELSE LET message == AgentMessage(nextId, from, to)
              targets == Targets(mem, t, from, to)
          IN /\ mem' = PushToAll(mem, t, targets, message)
             /\ streams' = WriteToAll(t, targets, message)
             /\ resp' = Response(200, Cardinality(targets), message.id)
             /\ nextId' = nextId + 1
  /\ UNCHANGED <<connections, nextStream>>
  /\ HubFrame

HubInit == StoreInit /\ BufIdle /\ Idle

HubNext ==
  \/ \E t \in Teams : HubCreateTeam(t)
  \/ \E key \in StreamKeys : HubStream(key[1], key[2])
  \/ \E key \in SseKeys : HubSse(key[1], key[2])
  \/ \E sid \in 1 .. MaxStreams : HubClose(sid)
  \/ \E sid \in 1 .. MaxStreams : HubSseClose(sid)
  \/ \E sender \in Senders, to \in Recipients : HubSend(sender[1], sender[2], to)

SpecHub == HubInit /\ [][HubNext]_vars

\* the last k elements of a sequence
LastN(seq, k) == SubSeq(seq, Len(seq) - k + 1, Len(seq))

\* ------------------------------------------------------------------ claims

\* C1: after any sequence of pushMessage calls with one cap N >= 1 on an agent
\* whose buffer started empty, the buffer holds at most N messages and is
\* exactly the last min(k, N) messages pushed, in arrival order.
C1_BufferIsLastPushes ==
  subject = "store" =>
    \A a \in Adapters :
      LET buf == BufferOf(GetAgentIn(mem, vol, red, "t1", "bob")[a]) IN
        /\ Len(buf) <= cap
        /\ buf = LastN(hist, Min(Len(hist), cap))

\* five pushes with cap 3 leave messages 3, 4, 5
C1_Witness ==
  /\ subject = "store" /\ cap = 3 /\ Len(hist) = 5
  /\ BufferOf(VolGetAgent(vol, "t1", "bob")) = << TestMsg(3), TestMsg(4), TestMsg(5) >>

\* C3: flushMessages returns the whole buffer in arrival order and leaves it
\* empty, so a flush right after it returns []; for an unknown agent it
\* returns []; the same for HubClient.flushMessages and NostrClient.flushMessages.
C3_FlushDrains ==
  [][ lastCall'.op = "flushMessages" =>
        CASE subject = "store" ->
               \A a \in Adapters :
                 LET t == lastCall'.t
                     n == lastCall'.n
                 IN /\ ret'[a] = BufferOf(GetAgentIn(mem, vol, red, t, n)[a])
                    /\ n = "bob" => ret'[a] = LastN(hist, Min(Len(hist), cap))
                    /\ n = "nobody" => ret'[a] = << >>
                    /\ BufferOf(GetAgentIn(mem', vol', red', t, n)[a]) = << >>
                    /\ FlushIn(mem', vol', red', t, n)[a] = << >>
                    /\ (lastCall.op = "flushMessages" /\ lastCall.n = n) => ret'[a] = << >>
          [] subject = "hub" ->
               /\ ret' = hubClientBuffer /\ ret' = hist
               /\ hubClientBuffer' = << >>
               /\ ClientFlush(hubClientBuffer').ret = << >>
               /\ lastCall.op = "flushMessages" => ret' = << >>
          [] subject = "nostr" ->
               /\ ret' = nostrBuffer /\ ret' = hist
               /\ nostrBuffer' = << >>
               /\ ClientFlush(nostrBuffer').ret = << >>
               /\ lastCall.op = "flushMessages" => ret' = << >>
    ]_vars

\* a flush of the store that returned two messages
C3_Witness ==
  /\ subject = "store" /\ lastCall.op = "flushMessages" /\ lastCall.n = "bob"
  /\ Len(ret.red) >= 2 /\ ret.red = ret.mem /\ ret.vol = ret.mem
  /\ BufferOf(RedGetAgent(red, "t1", "bob")) = << >>

\* a flush of each client that returned two messages
C3_WitnessHub ==
  subject = "hub" /\ lastCall.op = "flushMessages" /\ Len(ret) = 2 /\ hubClientBuffer = << >>

C3_WitnessNostr ==
  subject = "nostr" /\ lastCall.op = "flushMessages" /\ Len(ret) = 2 /\ nostrBuffer = << >>

\* C4: no message is returned by two flushMessages calls, however two
\* concurrent flushes (and pushes) on the same agent interleave.
C4_NoDoubleDelivery == \A id \in DOMAIN returned : returned[id] <= 1

\* how often x occurs in a sequence
Occurrences(seq, x) == Cardinality({ i \in 1 .. Len(seq) : seq[i] = x })

\* C5: a broadcast from a sender registered in a team of k agents appends the
\* message exactly once to the buffer of each of the k - 1 others, answers
\* deliveredTo = k - 1 and leaves the sender's buffer (and every other
\* team's) unchanged.
C5_BroadcastReachesOthers ==
  [][ \A sender \in Senders :
        LET t == sender[1]
            from == sender[2]
            team == { k \in DOMAIN mem.agents : k[1] = t }
            msg == AgentMessage(nextId, from, "broadcast")
        IN (HubSend(t, from, "broadcast") /\ agentKey(t, from) \in DOMAIN mem.agents) =>
             /\ resp'.status = 200
             /\ resp'.deliveredTo = Cardinality(team) - 1
             /\ DOMAIN mem'.agents = DOMAIN mem.agents
             /\ \A k \in DOMAIN mem.agents :
                  IF k[1] = t /\ k[2] # from
                  THEN /\ mem'.agents[k].messageBuffer = Append(mem.agents[k].messageBuffer, msg)
                       /\ Occurrences(mem'.agents[k].messageBuffer, msg) = 1
                  ELSE mem'.agents[k] = mem.agents[k]
    ]_vars

\* alice's broadcast in a team of three reached bob and carol, not alice
C5_Witness ==
  /\ lastCall = HubCall("send", "t1", "alice", "broadcast")
  /\ resp.status = 200 /\ resp.deliveredTo = 2
  /\ {<<"t1", "alice">>, <<"t1", "bob">>, <<"t1", "carol">>} \subseteq DOMAIN mem.agents
  /\ LET msg == AgentMessage(resp.messageId, "alice", "broadcast") IN
       /\ Occurrences(mem.agents[<<"t1", "bob">>].messageBuffer, msg) = 1
       /\ Occurrences(mem.agents[<<"t1", "carol">>].messageBuffer, msg) = 1
       /\ Occurrences(mem.agents[<<"t1", "alice">>].messageBuffer, msg) = 0

\* C6: a direct send to a name no agent of the sender's team bears answers
\* 200 with deliveredTo = 0 and changes no buffer, creates no agent record
\* and calls no push function.
C6_UnknownRecipient ==
  [][ \A sender \in Senders, to \in Recipients \ {"broadcast"} :
        (/\ HubSend(sender[1], sender[2], to)
         /\ Authorized(sender[1])
         /\ agentKey(sender[1], to) \notin DOMAIN mem.agents) =>
          /\ resp' = Response(200, 0, nextId)
          /\ mem' = mem
          /\ streams' = streams
          /\ connections' = connections
    ]_vars

\* bob of t2 wrote to bob, a name known in t1 only, while streams were open
C6_Witness ==
  /\ lastCall = HubCall("send", "t2", "bob", "bob")
  /\ resp.status = 200 /\ resp.deliveredTo = 0
  /\ <<"t1", "bob">> \in DOMAIN mem.agents
  /\ <<"t2", "bob">> \notin DOMAIN mem.agents
  /\ <<"t1", "bob">> \in DOMAIN connections
  /\ \A k \in DOMAIN mem.agents : mem.agents[k].messageBuffer = << >>
  /\ \A sid \in DOMAIN streams : streams[sid].out = << >>

\* C2: after every pushMessage on an existing agent the buffer length is at
\* most maxBuffer, in every adapter (eviction from the head until at the cap);
\* stated for maxBuffer >= 1.
C2_PushLeavesAtMostCap ==
  (lastCall.op = "pushMessage" /\ lastCall.had /\ lastCall.arg.maxBuffer >= 1) =>
    \A a \in Adapters :
      Len(BufferOf(GetAgentIn(mem, vol, red, lastCall.t, lastCall.n)[a]))
        <= lastCall.arg.maxBuffer

\* C2 for the RedisStore alone and a cap of at least 1 (LTRIM -cap -1)
C2_RedisTrimsToCap ==
  (lastCall.op = "pushMessage" /\ lastCall.had /\ lastCall.arg.maxBuffer >= 1) =>
    Len(BufferOf(RedGetAgent(red, lastCall.t, lastCall.n))) <= lastCall.arg.maxBuffer

\* C7: listAgents(t) returns exactly the agents saved under t and not removed
\* since, one record each, and never a record whose teamId differs.
C7_ListAgentsTeamScoped ==
  \A t \in Teams : \A a \in Adapters :
    LET listed == ListAgentsIn(mem, vol, red, t)[a] IN
      /\ \A rec \in listed : rec.teamId = t
      /\ { rec.name : rec \in listed } = { k[2] : k \in { x \in live : x[1] = t } }
      /\ Cardinality(listed) = Cardinality({ x \in live : x[1] = t })

\* both teams hold an agent named alice, bob of t1 has just been removed
C7_Witness ==
  /\ live = {<<"t1", "alice">>, <<"t2", "alice">>}
  /\ lastCall.op = "removeAgent" /\ lastCall.n = "bob" /\ lastCall.had

\* C8: saveAgent(r) followed by getAgent returns r: sessionId, connectedAt and
\* the buffer exactly as passed, whatever was stored before.
C8_SaveAgentRoundTrip ==
  lastCall.op = "saveAgent" =>
    \A a \in Adapters :
      GetAgentIn(mem, vol, red, lastCall.t, lastCall.n)[a] = << lastCall.arg >>

\* an empty buffer saved over a stored buffer of two messages
C8_Witness ==
  /\ lastCall.op = "saveAgent" /\ lastCall.had /\ lastCall.len = 2
  /\ lastCall.arg.messageBuffer = << >>
  /\ lastCall.arg.sessionId = "s2"

\* a buffer of two messages saved and read back
C8_WitnessNonEmpty ==
  /\ lastCall.op = "saveAgent" /\ Len(lastCall.arg.messageBuffer) = 2
  /\ BufferOf(VolGetAgent(vol, lastCall.t, lastCall.n)) = lastCall.arg.messageBuffer

\* C9: pushMessage for a (team, name) with no record changes nothing in any
\* adapter: no record, no buffer, getAgent still null, flushMessages still [].
C9_PushUnknownIsNoOp ==
  [][ (lastCall'.op = "pushMessage" /\ MemGetAgent(mem, lastCall'.t, lastCall'.n) = << >>) =>
        /\ mem' = mem /\ vol' = vol /\ red' = red
        /\ \A a \in Adapters :
             /\ GetAgentIn(mem', vol', red', lastCall'.t, lastCall'.n)[a] = << >>
             /\ FlushIn(mem', vol', red', lastCall'.t, lastCall'.n)[a] = << >>
    ]_vars

\* a push to an unknown agent while another agent holds a buffer
C9_Witness ==
  /\ lastCall.op = "pushMessage" /\ ~lastCall.had
  /\ \E k \in live : BufferOf(MemGetAgent(mem, k[1], k[2])) # << >>

\* C10: after removeAgent(t, n) getAgent is null, listAgents(t) lacks n and
\* the buffer is gone; for an agent that does not exist nothing changes.
C10_RemoveAgentIdempotent ==
  [][ lastCall'.op = "removeAgent" =>
        LET t == lastCall'.t
            n == lastCall'.n
        IN /\ \A a \in Adapters :
                /\ GetAgentIn(mem', vol', red', t, n)[a] = << >>
                /\ \A rec \in ListAgentsIn(mem', vol', red', t)[a] : rec.name # n
                /\ FlushIn(mem', vol', red', t, n)[a] = << >>
           /\ agentKey(t, n) \notin DOMAIN VolLoad(vol').messages
           /\ kMsgs(t, n) \notin DOMAIN red'.list
           /\ MemGetAgent(mem, t, n) = << >> =>
                (mem' = mem /\ VolLoad(vol') = VolLoad(vol) /\ red' = red)
    ]_vars

\* an agent with a buffer removed, and a remove of an agent that is not there
C10_Witness ==
  /\ lastCall.op = "removeAgent" /\ lastCall.had /\ lastCall.len > 0

C10_WitnessAbsent ==
  /\ lastCall.op = "removeAgent" /\ ~lastCall.had /\ live # {}

\* C11: each adapter holds at most one record per (team, name): listAgents
\* has at most one entry of a name, the one getAgent returns, and a saveAgent
\* over an existing record leaves the record just saved as the only one.
C11_OneRecordPerName ==
  \A a \in Adapters : \A key \in Keys :
    LET named == { rec \in ListAgentsIn(mem, vol, red, key[1])[a] : rec.name = key[2] }
        got == GetAgentIn(mem, vol, red, key[1], key[2])[a]
    IN /\ Cardinality(named) <= 1
       /\ named = { got[i] : i \in 1 .. Len(got) }
       /\ (lastCall.op = "saveAgent" /\ lastCall.t = key[1] /\ lastCall.n = key[2]) =>
            named = { lastCall.arg }

\* alice of t1 connected again with a new sessionId while bob is connected
C11_Witness ==
  /\ lastCall.op = "saveAgent" /\ lastCall.had
  /\ lastCall.t = "t1" /\ lastCall.n = "alice" /\ lastCall.arg.sessionId = "s2"
  /\ \A a \in Adapters : Cardinality(ListAgentsIn(mem, vol, red, "t1")[a]) = 2
  /\ <<"t1", "bob">> \in live

\* C12: a send authenticated for team T changes only buffers of agents of T
\* and writes only to streams registered under T: the records, buffers and
\* streams of every other team, and so what its agents list or drain, are
\* unchanged.
C12_SendsStayInTeam ==
  [][ \A sender \in Senders, to \in Recipients :
        HubSend(sender[1], sender[2], to) =>
          LET t == sender[1] IN
            /\ DOMAIN mem'.agents = DOMAIN mem.agents
            /\ mem'.teams = mem.teams
            /\ connections' = connections
            /\ DOMAIN streams' = DOMAIN streams
            /\ \A k \in DOMAIN mem.agents : k[1] # t => mem'.agents[k] = mem.agents[k]
            /\ \A sid \in DOMAIN streams :
                 streams[sid].key[1] # t => streams'[sid] = streams[sid]
            /\ \A u \in Teams \ {t} :
                 /\ MemListAgents(mem', u) = MemListAgents(mem, u)
                 /\ \A key \in StreamKeys :
                      MemFlushMessages(mem', u, key[2]).ret = MemFlushMessages(mem, u, key[2]).ret
    ]_vars

\* bob's broadcast in t2 reached alice of t2 and her stream, not alice of t1
C12_Witness ==
  /\ lastCall = HubCall("send", "t2", "bob", "broadcast")
  /\ resp.status = 200 /\ resp.deliveredTo = 1
  /\ {<<"t1", "alice">>, <<"t2", "alice">>} \subseteq DOMAIN connections
  /\ LET msg == AgentMessage(resp.messageId, "bob", "broadcast") IN
       /\ mem.agents[<<"t2", "alice">>].messageBuffer = << msg >>
       /\ streams[connections[<<"t2", "alice">>]].out = << JsonStringify(msg) >>
       /\ mem.agents[<<"t1", "alice">>].messageBuffer = << >>
       /\ streams[connections[<<"t1", "alice">>]].out = << >>

\* C13: a registration (connect or reconnect, on /agent/stream or /sse) of an
\* agent that already has a record keeps the record's buffer as it was.
C13_ReconnectKeepsBuffer ==
  [][ \A key \in StreamKeys \cup SseKeys :
        (/\ HubStream(key[1], key[2]) \/ HubSse(key[1], key[2])
         /\ resp'.status = 200
         /\ key \in DOMAIN mem.agents) =>
          mem'.agents[key].messageBuffer = mem.agents[key].messageBuffer
    ]_vars

\* the same of /agent/stream alone
C13_StreamKeepsBuffer ==
  [][ \A key \in StreamKeys :
        (HubStream(key[1], key[2]) /\ resp'.status = 200 /\ key \in DOMAIN mem.agents) =>
          /\ mem'.agents[key].messageBuffer = mem.agents[key].messageBuffer
          /\ mem'.agents[key].sessionId # mem.agents[key].sessionId
    ]_vars

\* C15: no team ever has more than maxAgents agent records.
C15_TeamWithinCapacity ==
  \A t \in Teams : Cardinality(MemListAgents(mem, t)) <= maxAgents

\* the refusal of /sse alone: at capacity it answers 429 and registers nothing
C15_SseRefusesAtCapacity ==
  [][ \A key \in SseKeys :
        (HubSse(key[1], key[2]) /\ Cardinality(MemListAgents(mem, key[1])) >= maxAgents) =>
          resp'.status = 429 /\ mem' = mem /\ streams' = streams
    ]_vars

\* where in a log the call op for name is made
Calls(log, op, name) == { i \in 1 .. Len(log) : log[i] = [op |-> op, name |-> name] }

\* C14: for each recipient a send resolves, the message is appended to its
\* store buffer and then, exactly when a push function is registered for it,
\* that function is called once with the message; deliveredTo counts the
\* recipients resolved, registered or not.
C14_PersistThenPush ==
  [][ \A sender \in Senders, to \in Recipients :
        (HubSend(sender[1], sender[2], to) /\ Authorized(sender[1])) =>
          LET t == sender[1]
              message == AgentMessage(nextId, sender[2], to)
              targets == Targets(mem, t, sender[2], to)
              keys == { agentKey(t, a.name) : a \in targets }
              run == DeliverLoop([store |-> mem, streams |-> streams, log |-> << >>],
                                 t, targets, message)
          IN /\ resp'.deliveredTo = Cardinality(targets)
             /\ mem' = run.store /\ streams' = run.streams
             /\ \A k \in DOMAIN mem.agents :
                  mem'.agents[k].messageBuffer =
                    IF k \in keys
                    THEN LastN(Append(mem.agents[k].messageBuffer, message),
                               Min(Len(mem.agents[k].messageBuffer) + 1, MAX_BUFFER))
                    ELSE mem.agents[k].messageBuffer
             /\ \A sid \in DOMAIN streams :
                  streams'[sid].out =
                    IF \E k \in keys : k \in DOMAIN connections /\ connections[k] = sid
                    THEN Append(streams[sid].out, JsonStringify(message))
                    ELSE streams[sid].out
             /\ \A a \in targets :
                  LET persisted == Calls(run.log, "pushMessage", a.name)
                      pushed == Calls(run.log, "pushFn", a.name)
                  IN /\ Cardinality(persisted) = 1
                     /\ Cardinality(pushed) =
                          (IF agentKey(t, a.name) \in DOMAIN connections THEN 1 ELSE 0)
                     /\ \A i \in persisted, j \in pushed : i < j
    ]_vars

\* a broadcast to bob, registered over /sse with no push function, and to
\* carol, streaming: both buffered, only carol's stream written to
C14_Witness ==
  /\ lastCall = HubCall("send", "t1", "alice", "broadcast")
  /\ resp.status = 200 /\ resp.deliveredTo = 2
  /\ <<"t1", "bob">> \in DOMAIN mem.agents /\ <<"t1", "bob">> \notin DOMAIN connections
  /\ <<"t1", "carol">> \in DOMAIN connections
  /\ LET msg == AgentMessage(resp.messageId, "alice", "broadcast") IN
       /\ mem.agents[<<"t1", "bob">>].messageBuffer = << msg >>
       /\ mem.agents[<<"t1", "carol">>].messageBuffer = << msg >>
       /\ streams[connections[<<"t1", "carol">>]].out = << JsonStringify(msg) >>
       /\ \A sid \in DOMAIN streams :
            streams[sid].key = <<"t1", "bob">> => streams[sid].out = << >>

\* ------------------------------------- relay publishes of one client (SpecPublish)
\* One NostrClient and its relay socket.  A call of send() gets the next call
\* number; promises[call] is the promise send() returned: the wait for the
\* socket, then publish().  Timers fire in the order they were armed; the
\* relay answers an EVENT it received with OK, or not at all.  The presence
\* events the client publishes on open are left out: an event of kind 1338
\* never has the id of a message event, so its pendingPublish entry, its timer
\* and its promise (caught and dropped) touch no send.

\* the calls of send() in one run
MaxPubs == 2

\* event ids: two sends of the same text to the same recipient within one
\* second sign the same event, hence the same id
EventIds == {"e1", "e2"}

\* the reasons a relay gives in OK
Reasons == {"blocked", "invalid"}

NoError == [kind |-> "none", reason |-> ""]
NotConnected == [kind |-> "NotConnected", reason |-> ""]
ConnectionTimeout == [kind |-> "ConnectionTimeout", reason |-> ""]
ConnectionError == [kind |-> "ConnectionError", reason |-> ""]
WriteError == [kind |-> "WriteError", reason |-> ""]
RelayRejected(reason) == [kind |-> "RelayRejected", reason |-> reason]

PubFrame == UNCHANGED <<storeVars, bufVars, sharedVars, hubVars, relayVars, cfgVars, orderVars, lifeVars, handlerVars, recvVars, waitVars, snapVars, joinVars, exportVars>>

\* the promise machinery: a settled promise ignores later resolve/reject
Settle(ps, call, state, error) ==
  IF ps[call].state = "pending"
  THEN [ps EXCEPT ![call].state = state, ![call].error = error]
  ELSE ps

\* clearTimeout(timeout) of the call's 5 s timer
ClearTimeout(ps, call) ==
  IF ps[call].timer = "armed" THEN [ps EXCEPT ![call].timer = "cleared"] ELSE ps

\* the number of 5 s timers armed so far
Armed(ps) == Cardinality({c \in DOMAIN ps : ps[c].seq > 0})

\* publish(event) on an open socket: arms the timer, registers the entry
\* under the event's id (replacing an entry of the same id), queues the write
Publish(st, call, id) ==
  [promises |-> MapSet(st.promises, call,
                  [id |-> id, state |-> "pending", error |-> NoError,
                   timer |-> "armed", seq |-> Armed(st.promises) + 1, write |-> "queued"]),
   pendingPublish |-> MapSet(st.pendingPublish, id, call)]

\* publish(event) on a socket that is not open
PublishNotConnected(st, call, id) ==
  [promises |-> MapSet(st.promises, call,
                  [id |-> id, state |-> "rejected", error |-> NotConnected,
                   timer |-> "none", seq |-> 0, write |-> "none"]),
   pendingPublish |-> st.pendingPublish]

\* the timer callback of the call's publish
TimeoutFires(st, call) ==
  LET id == st.promises[call].id
      fired == [st.promises EXCEPT ![call].timer = "fired"]
  IN IF id \in DOMAIN st.pendingPublish
     THEN [promises |-> Settle(fired, call, "resolved", NoError),
           pendingPublish |-> MapDel(st.pendingPublish, id)]
     ELSE [promises |-> fired, pendingPublish |-> st.pendingPublish]

\* the callback of ws.send with an error
WriteFailed(st, call) ==
  LET id == st.promises[call].id
      failed == [st.promises EXCEPT ![call].write = "failed"]
  IN [promises |-> Settle(ClearTimeout(failed, call), call, "rejected", WriteError),
      pendingPublish |-> MapDel(st.pendingPublish, id)]

\* a mutant of handleOk: the relay's verdict is ignored
HandleOkIgnoresVerdict(st, eventId, accepted, reason) ==
  IF eventId \notin DOMAIN st.pendingPublish THEN st
  ELSE LET pending == st.pendingPublish[eventId] IN
       [promises |-> Settle(ClearTimeout(st.promises, pending), pending, "resolved", NoError),
        pendingPublish |-> MapDel(st.pendingPublish, eventId)]

\* handleOk(["OK", eventId, accepted, reason])
HandleOk(st, eventId, accepted, reason) ==
  IF eventId \notin DOMAIN st.pendingPublish THEN st
  ELSE LET pending == st.pendingPublish[eventId]
           cleared == ClearTimeout(st.promises, pending)
       IN [promises |-> IF accepted
                        THEN Settle(cleared, pending, "resolved", NoError)
                        ELSE Settle(cleared, pending, "rejected", RelayRejected(reason)),
           pendingPublish |-> MapDel(st.pendingPublish, eventId)]

PubState == [promises |-> promises, pendingPublish |-> pendingPublish]

NextCall == Cardinality(DOMAIN promises) + 1

\* the sends that wait for the socket to open, in call order
RECURSIVE Waiting(_, _)
Waiting(ps, c) ==
  IF c > MaxPubs + 1 THEN << >>
  ELSE IF c \in DOMAIN ps /\ ps[c].write = "waiting" THEN <<c>> \o Waiting(ps, c + 1)
  ELSE Waiting(ps, c + 1)

\* a mutant of the resumption: the sends that waited are dropped
ResumeNone(st, calls) == st

\* send() resumed after the wait: the socket is open, the event is published
RECURSIVE ResumeAll(_, _)
ResumeAll(st, calls) ==
  IF calls = << >> THEN st
  ELSE ResumeAll(Publish(st, Head(calls), st.promises[Head(calls)].id), Tail(calls))

\* send() resumed by the socket's error: the wait rejects
RECURSIVE FailAll(_, _)
FailAll(ps, calls) ==
  IF calls = << >> THEN ps
  ELSE FailAll([ps EXCEPT ![Head(calls)].state = "rejected",
                          ![Head(calls)].error = ConnectionError,
                          ![Head(calls)].write = "none"], Tail(calls))

\* connect(): a new socket, still connecting
WsConnect ==
  /\ ws \in {"none", "CLOSED"}
  /\ ws' = "CONNECTING"
  /\ UNCHANGED <<promises, pendingPublish, relayInbox, relayLog>>
  /\ PubFrame

\* the socket's open event: the sends that waited for it go on
WsOpen ==
  /\ ws = "CONNECTING"
  /\ ws' = "OPEN"
  /\ LET st == ResumeAll(PubState, Waiting(promises, 1))
     IN /\ promises' = st.promises
        /\ pendingPublish' = st.pendingPublish
  /\ UNCHANGED <<relayInbox, relayLog>>
  /\ PubFrame

\* the socket fails or is closed; what the relay had not answered is lost
WsClose ==
  /\ ws \in {"CONNECTING", "OPEN"}
  /\ ws' = "CLOSED"
  /\ promises' = FailAll(promises, Waiting(promises, 1))
  /\ relayInbox' = {}
  /\ UNCHANGED <<pendingPublish, relayLog>>
  /\ PubFrame

\* send(to, type, content), the signed event having id
Send(id) ==
  /\ NextCall <= MaxPubs
  /\ \/ /\ ws \in {"none", "CLOSED"}
        /\ promises' = PublishNotConnected(PubState, NextCall, id).promises
        /\ UNCHANGED pendingPublish
     \/ /\ ws = "CONNECTING"
        /\ promises' = MapSet(promises, NextCall,
                         [id |-> id, state |-> "pending", error |-> NoError,
                          timer |-> "none", seq |-> 0, write |-> "waiting"])
        /\ UNCHANGED pendingPublish
     \/ /\ ws = "OPEN"
        /\ LET st == Publish(PubState, NextCall, id) IN
             /\ promises' = st.promises
             /\ pendingPublish' = st.pendingPublish
  /\ UNCHANGED <<ws, relayInbox, relayLog>>
  /\ PubFrame

\* the 10 s timer of a send that waits for the socket
WaitTimeout(call) ==
  /\ call \in DOMAIN promises
  /\ promises[call].write = "waiting"
  /\ promises' = [promises EXCEPT ![call].state = "rejected",
                                  ![call].error = ConnectionTimeout,
                                  ![call].write = "none"]
  /\ UNCHANGED <<ws, pendingPublish, relayInbox, relayLog>>
  /\ PubFrame

\* the callback of ws.send without an error: the relay has the EVENT
WriteDone(call) ==
  /\ call \in DOMAIN promises
  /\ promises[call].write = "queued"
  /\ ws = "OPEN"
  /\ promises' = [promises EXCEPT ![call].write = "done"]
  /\ relayInbox' = relayInbox \cup {call}
  /\ UNCHANGED <<ws, pendingPublish, relayLog>>
  /\ PubFrame

\* the callback of ws.send with an error
WriteFail(call) ==
  /\ call \in DOMAIN promises
  /\ promises[call].write = "queued"
  /\ LET st == WriteFailed(PubState, call) IN
       /\ promises' = st.promises
       /\ pendingPublish' = st.pendingPublish
  /\ UNCHANGED <<ws, relayInbox, relayLog>>
  /\ PubFrame

\* the 5 s timer of the call's publish fires (the oldest armed timer first)
Timeout(call) ==
  /\ call \in DOMAIN promises
  /\ promises[call].timer = "armed"
  /\ \A c \in DOMAIN promises : promises[c].timer = "armed" => promises[c].seq >= promises[call].seq
  /\ LET st == TimeoutFires(PubState, call) IN
       /\ promises' = st.promises
       /\ pendingPublish' = st.pendingPublish
  /\ UNCHANGED <<ws, relayInbox, relayLog>>
  /\ PubFrame

\* the relay answers the call's EVENT: ["OK", id, accepted, reason] arrives
RelayOk(call, accepted, reason) ==
  /\ call \in relayInbox
  /\ ws = "OPEN"
  /\ relayInbox' = relayInbox \ {call}
  /\ relayLog' = IF accepted THEN relayLog
                 ELSE relayLog \cup {[call |-> call, id |-> promises[call].id, reason |-> reason]}
  /\ LET st == HandleOk(PubState, promises[call].id, accepted, reason) IN
       /\ promises' = st.promises
       /\ pendingPublish' = st.pendingPublish
  /\ UNCHANGED ws
  /\ PubFrame

PubInit == StoreInit /\ BufIdle /\ Idle

PubCalls == 1 .. MaxPubs

PubNext ==
  \/ WsConnect
  \/ WsOpen
  \/ WsClose
  \/ \E id \in EventIds : Send(id)
  \/ \E call \in PubCalls : WaitTimeout(call)
  \/ \E call \in PubCalls : WriteDone(call)
  \/ \E call \in PubCalls : WriteFail(call)
  \/ \E call \in PubCalls : Timeout(call)
  \/ \E call \in PubCalls, accepted \in BOOLEAN, reason \in Reasons : RelayOk(call, accepted, reason)

SpecPublish == PubInit /\ [][PubNext]_vars

\* timers fire and write callbacks are called; the relay owes no answer
PubFairness ==
  \A call \in PubCalls :
    /\ WF_vars(Timeout(call))
    /\ WF_vars(WaitTimeout(call))
    /\ WF_vars(WriteDone(call) \/ WriteFail(call))

SpecPublishFair == SpecPublish /\ PubFairness

\* C16: every relay publish completes: a send never stays pending forever,
\* whatever the interleaving of publishes, acknowledgements and timeouts, two
\* in-flight publishes of the same event id included.
C16_EveryPublishCompletes ==
  \A call \in PubCalls :
    (call \in DOMAIN promises) ~> (call \in DOMAIN promises /\ promises[call].state # "pending")

\* an acknowledged send resolves, and so does one the relay never answers
C16_ResolvesOnOkOrTimeout ==
  [][\A call \in PubCalls :
       /\ (\E reason \in Reasons : RelayOk(call, TRUE, reason))
            /\ promises[call].id \in DOMAIN pendingPublish
            => promises'[pendingPublish[promises[call].id]].state = "resolved"
       /\ Timeout(call) /\ promises[call].id \in DOMAIN pendingPublish
            /\ pendingPublish[promises[call].id] = call
            => promises'[call].state = "resolved"]_vars

\* the sends that reached publish() on an open socket
Published == {call \in DOMAIN promises : promises[call].write # "none"}

\* the original statement of C17: a published send fails exactly when the
\* relay answered its event with OK accepted = false or its write failed
C17_FailsExactlyOnNackOrWriteError ==
  \A call \in Published :
    promises[call].state = "rejected"
      <=> \/ promises[call].write = "failed"
          \/ \E ok \in relayLog : ok.call = call

\* a rejected send names its cause, and the cause happened
C17_RejectedHasCause ==
  \A call \in DOMAIN promises :
    promises[call].state = "rejected" =>
      LET error == promises[call].error IN
        \/ error \in {NotConnected, ConnectionTimeout, ConnectionError}
             /\ promises[call].write = "none"
        \/ error = WriteError /\ promises[call].write = "failed"
        \/ \E ok \in relayLog : ok.id = promises[call].id /\ error = RelayRejected(ok.reason)

\* C17 (amended): a relay send fails only because the socket was not open,
\* because the socket write failed, or because the relay answered the event's
\* id with OK accepted = false, and then the error carries the relay's reason;
\* an OK accepted = false that arrives while the event's id is registered as
\* pending rejects the send registered under it.  A relay that never answers
\* makes no send fail.
C17_FailsOnlyOnNackOrError ==
  /\ []C17_RejectedHasCause
  /\ [][\A call \in PubCalls, reason \in Reasons :
          RelayOk(call, FALSE, reason) /\ promises[call].id \in DOMAIN pendingPublish
            => LET registered == pendingPublish[promises[call].id] IN
                 /\ promises[registered].state = "pending"
                 /\ promises'[registered].state = "rejected"
                 /\ promises'[registered].error = RelayRejected(reason)]_vars

\* a send the relay rejected, and one it never answered that resolved
C17_Witness ==
  \E call \in DOMAIN promises, other \in DOMAIN promises :
    /\ promises[call].state = "rejected"
    /\ promises[call].error = RelayRejected("blocked")
    /\ \E ok \in relayLog : ok.call = call
    /\ promises[other].state = "resolved"
    /\ promises[other].timer = "fired"

\* the event carries a non-empty tag of that name
HasTag(event, name) ==
  \E i \in 1 .. Len(event.tags) : event.tags[i][1] = name /\ event.tags[i][2] # ""

FirstTag(event, name) ==
  event.tags[CHOOSE i \in 1 .. Len(event.tags) :
               /\ event.tags[i][1] = name
               /\ \A j \in 1 .. i - 1 : event.tags[j][1] # name][2]

\* a message event with the three tags, addressed to bob or to everybody
ForBob(event) ==
  /\ event.kind = AGENT_MSG_KIND
  /\ HasTag(event, "agent-from") /\ HasTag(event, "agent-to") /\ HasTag(event, "msg-type")
  /\ FirstTag(event, "agent-to") \in {"bob", "broadcast"}

\* C18: on the relay transport an incoming event is appended to the local
\* buffer if and only if it is a message event that carries agent-from,
\* agent-to and msg-type tags and whose agent-to is the agent's own name or
\* "broadcast"; a message addressed to another name is never drained.
C18_AcceptsOwnAndBroadcastOnly ==
  /\ [][(\E shape \in EventShapes : NostrOnEvent(shape)) =>
          LET event == lastCall'.arg IN
            IF ForBob(event)
            THEN /\ Len(nostrBuffer') = Len(nostrBuffer) + 1
                 /\ SubSeq(nostrBuffer', 1, Len(nostrBuffer)) = nostrBuffer
                 /\ nostrBuffer'[Len(nostrBuffer')].id = event.id
                 /\ nostrBuffer'[Len(nostrBuffer')].to = FirstTag(event, "agent-to")
            ELSE nostrBuffer' = nostrBuffer]_vars
  /\ [](subject = "nostr" =>
          /\ \A i \in 1 .. Len(nostrBuffer) : nostrBuffer[i].to \in {"bob", "broadcast"}
          /\ lastCall.op = "flushMessages" =>
               \A i \in 1 .. Len(ret) : ret[i].to \in {"bob", "broadcast"})

\* bob drained a direct message and a broadcast, a third event was turned away
C18_Witness ==
  /\ subject = "nostr"
  /\ lastCall.op = "flushMessages"
  /\ Len(ret) = 2
  /\ ret[1].to = "bob"
  /\ ret[2].to = "broadcast"
  /\ nextId = 4

\* --------------------------------------- three clients on one relay (SpecRelay)
\* The relay is the environment: as NIP-01 asks, it stores the events it is
\* sent, forwards each to every open subscription whose filter it matches
\* (the publisher's own included) and, on REQ, first sends the stored events
\* that match.  A client connects once; the relay has the EVENT as soon as
\* send() has written it, and all events are younger than the filter's since.

\* the message events published in one run: ids 1 .. MaxRelayEvents
MaxRelayEvents == 2

ClientTeam(c) == IF c = "aliceB" THEN "t2" ELSE "t1"
ClientName(c) == IF c = "bobA" THEN "bob" ELSE "alice"

\* the id of the presence event a client signs
PresenceIdOf(c) == CASE c = "aliceA" -> 101 [] c = "bobA" -> 102 [] c = "aliceB" -> 103

RelayRecipients == {"alice", "bob", "broadcast"}

RelayFrame == UNCHANGED <<mem, vol, red, lastCall, ret, live, bufVars, sharedVars, hubVars, pubVars, cfgVars, orderVars, lifeVars, handlerVars, recvVars, waitVars, snapVars, joinVars, exportVars>>

\* a mutant of subscribe(): a filter without the team tag
SubscribeAnyTeam(teamId) ==
  [kinds |-> {AGENT_MSG_KIND, PRESENCE_KIND}, t |-> Teams]

\* the filter of subscribe()
Subscribe(teamId) ==
  [kinds |-> {AGENT_MSG_KIND, PRESENCE_KIND}, t |-> {teamId}]

\* the relay's test of an event against a filter
Matches(filter, event) ==
  /\ event.kind \in filter.kinds
  /\ TagValue(event.tags, "t") \in filter.t

\* the relay forwards an event to the open subscriptions it matches
Forward(inb, subs, event) ==
  [c \in RelayClients |->
     IF c \in DOMAIN subs /\ Matches(subs[c], event) THEN Append(inb[c], event) ELSE inb[c]]

\* the stored events that match a filter, oldest id first
RECURSIVE Replay(_, _)
Replay(stored, filter) ==
  LET matching == {e \in stored : Matches(filter, e)} IN
    IF matching = {} THEN << >>
    ELSE LET first == CHOOSE e \in matching : \A o \in matching : e.id <= o.id
         IN <<first>> \o Replay(stored \ {first}, filter)

\* the relay takes an event a client published
RelayAccept(c, event, subs, inb) ==
  /\ relayStored' = relayStored \cup {event}
  /\ inbox' = Forward(inb, subs, event)
  /\ published' = [published EXCEPT ![c] = @ \cup {event.id}]

\* connect() and the socket's open event: subscribe(), publishPresence()
RelayConnect(c) ==
  /\ c \notin DOMAIN relaySubs
  /\ LET filter == Subscribe(ClientTeam(c))
         subs == MapSet(relaySubs, c, filter)
         inb == [inbox EXCEPT ![c] = @ \o Replay(relayStored, filter)]
     IN /\ relaySubs' = subs
        /\ RelayAccept(c, PresenceEvent(PresenceIdOf(c), ClientTeam(c), ClientName(c)), subs, inb)
  /\ UNCHANGED <<nextId, clientBuffer, clientKnown, drained>>
  /\ RelayFrame

\* send(to, "todo", "c") of a connected client
RelaySend(c, to) ==
  /\ c \in DOMAIN relaySubs
  /\ nextId <= MaxRelayEvents
  /\ RelayAccept(c, MessageEvent(nextId, ClientTeam(c), ClientName(c), to, "todo"),
                 relaySubs, inbox)
  /\ nextId' = nextId + 1
  /\ UNCHANGED <<relaySubs, clientBuffer, clientKnown, drained>>
  /\ RelayFrame

\* the socket's message event with ["EVENT", subId, event]
RelayDeliver(c) ==
  /\ inbox[c] # << >>
  /\ LET r == HandleEvent(clientBuffer[c], clientKnown[c], ClientName(c), Head(inbox[c])) IN
       /\ clientBuffer' = [clientBuffer EXCEPT ![c] = r.messageBuffer]
       /\ clientKnown' = [clientKnown EXCEPT ![c] = r.knownAgents]
  /\ inbox' = [inbox EXCEPT ![c] = Tail(@)]
  /\ UNCHANGED <<nextId, relayStored, relaySubs, drained, published>>
  /\ RelayFrame

\* flushMessages() of a client
RelayFlush(c) ==
  /\ clientBuffer[c] # << >>
  /\ drained' = [drained EXCEPT ![c] = @ \cup {ClientFlush(clientBuffer[c]).ret[i] :
                                                 i \in 1 .. Len(clientBuffer[c])}]
  /\ clientBuffer' = [clientBuffer EXCEPT ![c] = ClientFlush(clientBuffer[c]).buffer]
  /\ UNCHANGED <<nextId, relayStored, relaySubs, inbox, clientKnown, published>>
  /\ RelayFrame

RelayInit == StoreInit /\ BufIdle /\ Idle

RelayNext ==
  \/ \E c \in RelayClients : RelayConnect(c)
  \/ \E c \in RelayClients, to \in RelayRecipients : RelaySend(c, to)
  \/ \E c \in RelayClients : RelayDeliver(c)
  \/ \E c \in RelayClients : RelayFlush(c)

SpecRelay == RelayInit /\ [][RelayNext]_vars

\* the team tag of the stored event with that id
TeamOfEvent(id) == TagValue((CHOOSE e \in relayStored : e.id = id).tags, "t")

\* the messages a client holds or has drained
Received(c) == drained[c] \cup {clientBuffer[c][i] : i \in 1 .. Len(clientBuffer[c])}

\* C19: with two teams on one relay, a message published under one team's
\* tag never appears in the buffer, drained or not, of an agent connected with
\* the other team's tag.
C19_TeamsIsolatedOnRelay ==
  \A c \in RelayClients : \A m \in Received(c) : TeamOfEvent(m.id) = ClientTeam(c)

\* team t2 published a broadcast and a message to "alice"; alice of team t1
\* was connected throughout and has drained a message of her own team
C19_Witness ==
  /\ \E e \in relayStored :
       /\ TagValue(e.tags, "t") = "t2"
       /\ TagValue(e.tags, "agent-to") \in {"broadcast", "alice"}
       /\ e.id \in published["aliceB"]
  /\ "aliceA" \in DOMAIN relaySubs
  /\ \E m \in drained["aliceA"] : m.from = "bob"
  /\ inbox["aliceA"] = << >>

\* C20: a broadcast is never appended to the sender's own buffer, also on the
\* relay transport when the relay forwards the sender's event back.
C20_BroadcastSkipsSender ==
  \A c \in RelayClients : \A m \in Received(c) :
    ~(m.to = "broadcast" /\ m.id \in published[c])

\* ------------------------------------ configure on both transports (SpecConfigure)
\* The same options are handed to a NostrClient and to a HubClient.

CfgFrame == UNCHANGED <<storeVars, bufVars, sharedVars, hubVars, pubVars, relayVars, orderVars, lifeVars, handlerVars, recvVars, waitVars, snapVars, joinVars, exportVars>>

CfgNames == {"", "bob"}
CfgUrls == {Undef, "wss://new"}
CfgCredentials == {Undef, "", "team1"}
CfgPrivateKeys == {Undef, "deadbeef"}

\* a ?? b
Coalesce(a, b) == IF a # Undef THEN a ELSE b

\* !!x of a string or undefined
Truthy(x) == x # Undef /\ x # ""

\* NostrClient.configure(o), opts being the configuration before the call
NostrConfigure(opts, o) ==
  [teamId |-> IF o.teamId # Undef THEN o.teamId ELSE IF o.apiKey # Undef THEN o.apiKey ELSE Undef,
   agentName |-> Coalesce(o.agentName, ""),
   relayUrl |-> Coalesce(o.relayUrl, Coalesce(o.hubUrl, opts.relayUrl)),
   privateKey |-> IF o.privateKey # Undef THEN o.privateKey ELSE opts.privateKey]

NostrIsConfigured(opts) == Truthy(opts.teamId) /\ Truthy(opts.agentName)

\* NostrClient.identity(), the key pair aside
NostrIdentity(opts) == [agentName |-> opts.agentName, url |-> opts.relayUrl]

\* HubClient.configure(o): the options object is stored as it is
HubConfigure(opts, o) == o

HubIsConfigured(opts) == Truthy(opts.apiKey) /\ Truthy(opts.agentName)

HubIdentity(opts) == [agentName |-> opts.agentName, url |-> opts.hubUrl]

\* transport.configure(o) on both clients
Configure(o) ==
  /\ nostrOpts' = NostrConfigure(nostrOpts, o)
  /\ hubOpts' = HubConfigure(hubOpts, o)
  /\ cfgIn' = o
  /\ CfgFrame

\* ensurePrivkey(), as identity() and exportConfig() call it
NostrEnsurePrivkey ==
  /\ ~Truthy(nostrOpts.privateKey)
  /\ nostrOpts' = [nostrOpts EXCEPT !.privateKey = "generated"]
  /\ UNCHANGED <<hubOpts, cfgIn>>
  /\ CfgFrame

CfgInit == StoreInit /\ BufIdle /\ Idle

CfgNext ==
  \/ \E agentName \in CfgNames, relayUrl \in CfgUrls, hubUrl \in CfgUrls,
        teamId \in CfgCredentials, apiKey \in CfgCredentials, privateKey \in CfgPrivateKeys :
       Configure(Options(agentName, relayUrl, hubUrl, teamId, apiKey, privateKey))
  \/ NostrEnsurePrivkey

SpecConfigure == CfgInit /\ [][CfgNext]_vars

\* the last call named the URL once and the credential once, in either vocabulary
OneOfEach(o) ==
  /\ (o.relayUrl = Undef) # (o.hubUrl = Undef)
  /\ (o.teamId = Undef) # (o.apiKey = Undef)

GivenUrl(o) == Coalesce(o.relayUrl, o.hubUrl)
GivenCredential(o) == Coalesce(o.teamId, o.apiKey)

\* the relay transport takes both vocabularies and keeps a private key the
\* call does not supply
C21_NostrToleratesAliases ==
  /\ [](OneOfEach(cfgIn) =>
          /\ NostrIsConfigured(nostrOpts) <=> (GivenCredential(cfgIn) # "" /\ cfgIn.agentName # "")
          /\ NostrIdentity(nostrOpts) = [agentName |-> cfgIn.agentName, url |-> GivenUrl(cfgIn)])
  /\ [][\A o \in {cfgIn'} :
          cfgIn' # cfgIn /\ o.privateKey = Undef => nostrOpts'.privateKey = nostrOpts.privateKey]_vars

\* C21: configure takes either transport's field names on both transports:
\* the URL given as relayUrl or hubUrl and the credential given as teamId or
\* apiKey yield the same configuration: isConfigured() is true when credential
\* and agentName are non-empty, identity() reports the given URL and name.
C21_ConfigureToleratesAliases ==
  OneOfEach(cfgIn) =>
    /\ NostrIsConfigured(nostrOpts) <=> (GivenCredential(cfgIn) # "" /\ cfgIn.agentName # "")
    /\ HubIsConfigured(hubOpts) <=> (GivenCredential(cfgIn) # "" /\ cfgIn.agentName # "")
    /\ NostrIdentity(nostrOpts) = [agentName |-> cfgIn.agentName, url |-> GivenUrl(cfgIn)]
    /\ HubIdentity(hubOpts) = [agentName |-> cfgIn.agentName, url |-> GivenUrl(cfgIn)]

\* the three adapters give the same answer
Same(answers) == answers.mem = answers.vol /\ answers.vol = answers.red

\* C22: the three store adapters are observationally equivalent: after every
\* sequence of calls with the same arguments (maxBuffer 0 and buffers saved
\* longer than the cap included, flush and push on unknown agents too), every
\* call returns the same result in each adapter.
C22_AdaptersEquivalent ==
  /\ Same(ret)
  /\ \A key \in Keys :
       /\ Same(GetAgentIn(mem, vol, red, key[1], key[2]))
       /\ Same(FlushIn(mem, vol, red, key[1], key[2]))
  /\ \A t \in Teams : Same(ListAgentsIn(mem, vol, red, t))

\* the /agent/stream responses that are open for (team, agent)
OpenStreams(key) == {sid \in DOMAIN streams : streams[sid].route = "stream" /\ streams[sid].key = key}

\* C23: the live-connection registry holds an entry for (team, agent) exactly
\* while a streaming connection for it is open, for any interleaving of opens
\* and closes, a second connection under the same name included.
C23_RegistryTracksOpenStreams ==
  \A key \in StreamKeys : key \in DOMAIN connections <=> OpenStreams(key) # {}

\* an entry always belongs to a response that is still open
C23_EntryPointsToOpenStream ==
  \A key \in StreamKeys : key \in DOMAIN connections => connections[key] \in OpenStreams(key)

\* C24: a pushMessage that races with removeAgent never resurrects the agent:
\* once both have completed there is no agent record and no stored buffer for
\* (team, agent), and flushMessages returns [].
C24_PushNeverResurrects ==
  (\A p \in Procs : conn[p].op = "idle") /\ RedGetAgent(red, "t1", "bob") = << >>
    => /\ kMsgs("t1", "bob") \notin DOMAIN red.list
       /\ RedFlushMessages(red, "t1", "bob").ret = << >>

\* the record itself is never brought back, only the message list
C24_RecordStaysRemoved ==
  [][RedGetAgent(red, "t1", "bob") = << >> => RedGetAgent(red', "t1", "bob") = << >>]_vars

\* ------------------------------------ pushes in flight at once (SpecOrder)
\* A connection carries its commands to the server in the order they were
\* sent and brings the replies back in that order; a call's continuation runs
\* when its reply is in, before the next reply is looked at.  wire[p] holds
\* the commands of process p that the server has not executed yet, each with
\* the id of the message its call pushes.

\* the pushMessage calls in one run
MaxOrder == 3

OrderFrame == UNCHANGED <<mem, vol, lastCall, ret, live, bufVars, sharedVars, hubVars, pubVars, relayVars, cfgVars, lifeVars, handlerVars, recvVars, waitVars, snapVars, joinVars, exportVars>>

Tagged(call, cmds) == [i \in 1 .. Len(cmds) |-> [call |-> call, cmd |-> cmds[i]]]

\* process p calls pushMessage("t1", "bob", msg, MAX_BUFFER): EXISTS is sent
OrderCallPush(p) ==
  /\ nextId <= MaxOrder
  /\ wire' = [wire EXCEPT ![p] = @ \o Tagged(nextId, << CmdExists(kAgent("t1", "bob")) >>)]
  /\ issued' = [issued EXCEPT ![p] = Append(@, nextId)]
  /\ nextId' = nextId + 1
  /\ UNCHANGED red
  /\ OrderFrame

\* the server executes the next command of p's connection; if it is the
\* EXISTS of a push and the agent exists, the call goes on and sends its
\* pipeline
OrderServerExec(p) ==
  /\ wire[p] # << >>
  /\ LET sent == Head(wire[p])
         r == RedisExec(red, sent.cmd)
     IN /\ red' = r.db
        /\ wire' = [wire EXCEPT ![p] =
                      IF sent.cmd.op = "EXISTS" /\ r.reply
                      THEN Tail(@) \o Tagged(sent.call,
                                             RedPushCmds("t1", "bob", TestMsg(sent.call), MAX_BUFFER))
                      ELSE Tail(@)]
  /\ UNCHANGED <<nextId, issued>>
  /\ OrderFrame

OrderInit == SharedInit

OrderNext ==
  \/ \E p \in Procs : OrderCallPush(p)
  \/ \E p \in Procs : OrderServerExec(p)

SpecOrder == OrderInit /\ [][OrderNext]_vars

\* the ids of the messages flushMessages would return for bob, in order
BufferIds ==
  LET msgs == RedFlushMessages(red, "t1", "bob").ret IN [i \in 1 .. Len(msgs) |-> msgs[i].id]

\* the elements of a sequence that are in a set, in order
RECURSIVE Restrict(_, _)
Restrict(seq, set) ==
  IF seq = << >> THEN << >>
  ELSE IF Head(seq) \in set THEN <<Head(seq)>> \o Restrict(Tail(seq), set)
  ELSE Restrict(Tail(seq), set)

Elements(seq) == {seq[i] : i \in 1 .. Len(seq)}

IsPrefix(a, b) == Len(a) <= Len(b) /\ a = SubSeq(b, 1, Len(a))

\* the original statement of C25: the buffer holds the messages in the order
\* in which the pushMessage calls were issued, whoever issued them (ids are
\* handed out in call order)
C25_BufferInIssueOrder ==
  \A i \in 1 .. Len(BufferIds) : \A j \in 1 .. Len(BufferIds) :
    i < j => BufferIds[i] < BufferIds[j]

\* C25 (amended): per recipient, the messages pushed through one store
\* adapter (one hub process) are in the buffer, and in the result of the next
\* flushMessages, in the order in which that process issued the pushMessage
\* calls, however its calls and those of other processes interleave; between
\* processes that share the store the order is that in which the appends
\* reach it.
C25_FifoPerProcess ==
  \A p \in Procs : IsPrefix(Restrict(BufferIds, Elements(issued[p])), issued[p])

\* one process had two pushes in flight at once, both are applied, and a push
\* of the other process has been applied as well
C25_Witness ==
  /\ \E p \in Procs :
       /\ Len(issued[p]) >= 2
       /\ Restrict(BufferIds, Elements(issued[p])) = issued[p]
  /\ \A p \in Procs : issued[p] # << >> /\ wire[p] = << >>
  /\ Len(BufferIds) = MaxOrder
  /\ ~C25_BufferInIssueOrder


\* ------------------------------------- the life of a connection (SpecLifecycle)
\* Two NostrClients of team t1 and one relay that stores every presence event
\* it is sent and replays the stored events a new subscription matches.  The
\* time is in seconds and advances in steps of 30 up to a horizon of
\* 30 * MaxTicks; a heartbeat that is due fires before the time advances.  Of the stored presence events of a client
\* the relay's state keeps the created_at of the latest: a replay of the
\* older ones adds no name to knownAgents.  Of an event on
\* its way to a client the model keeps the agent tag, of knownAgents the keys.

HEARTBEAT_MS == 60000
PRESENCE_WINDOW_S == 90
MaxTicks == 4

LifeFrame == UNCHANGED <<storeVars, bufVars, sharedVars, hubVars, pubVars, relayVars, cfgVars, orderVars, handlerVars, recvVars, waitVars, snapVars, joinVars, exportVars>>

\* a mutant of subscribe(): no lookback
SinceNow(t) == t

\* subscribe(): the since of the filter
Since(t) == t - PRESENCE_WINDOW_S

\* the relay's replay for a subscription: the stored events not older than since
ReplayPresence(stored, since) ==
  {a \in DOMAIN stored : stored[a] >= since}

\* publishPresence() of client c: publish() rejects unless the socket is open,
\* and the rejection is swallowed; the relay stores the event and forwards it
\* to the open subscriptions
PublishPresence(c, st, stored, inb, subs) ==
  IF st # "OPEN" THEN [stored |-> stored, inbox |-> inb]
  ELSE [stored |-> MapSet(stored, c, now),
        inbox |-> [d \in LifeClients |->
                     IF d \in DOMAIN subs THEN inb[d] \cup {c} ELSE inb[d]]]

\* the handling of a presence event by handleEvent: knownAgents.set(agent, ...)
HandlePresence(known, agent) == known \cup {agent}

\* connect(): the timer is cleared, the old socket closed, a new one created
Connect(c) ==
  /\ heartbeat' = [heartbeat EXCEPT ![c] = << >>]
  /\ sock' = [sock EXCEPT ![c] = "CONNECTING"]
  /\ relayReq' = MapDel(relayReq, c)
  /\ lifeInbox' = [lifeInbox EXCEPT ![c] = {}]
  /\ closeCalled' = [closeCalled EXCEPT ![c] = FALSE]
  /\ UNCHANGED <<now, relayPresence, lifeKnown, late>>
  /\ LifeFrame

\* the 'open' listener: subscribe(), publishPresence(), setInterval
Open(c) ==
  /\ sock[c] = "CONNECTING"
  /\ LET subs == MapSet(relayReq, c, Since(now))
         replayed == [lifeInbox EXCEPT ![c] = ReplayPresence(relayPresence, subs[c])]
         pub == PublishPresence(c, "OPEN", relayPresence, replayed, subs)
     IN /\ sock' = [sock EXCEPT ![c] = "OPEN"]
        /\ relayReq' = subs
        /\ relayPresence' = pub.stored
        /\ lifeInbox' = pub.inbox
        /\ heartbeat' = [heartbeat EXCEPT ![c] = <<now + HEARTBEAT_MS \div 1000>>]
        /\ late' = IF closeCalled[c] THEN late \cup {c} ELSE late
  /\ UNCHANGED <<now, closeCalled, lifeKnown>>
  /\ LifeFrame

\* the interval of client c has run out
Due(c) == IF heartbeat[c] = << >> THEN FALSE ELSE heartbeat[c][1] <= now

\* the interval of the heartbeat fires
Heartbeat(c) ==
  /\ Due(c)
  /\ LET pub == PublishPresence(c, sock[c], relayPresence, lifeInbox, relayReq)
     IN /\ relayPresence' = pub.stored
        /\ lifeInbox' = pub.inbox
        /\ late' = IF closeCalled[c] /\ sock[c] = "OPEN" THEN late \cup {c} ELSE late
  /\ heartbeat' = [heartbeat EXCEPT ![c] = <<heartbeat[c][1] + HEARTBEAT_MS \div 1000>>]
  /\ UNCHANGED <<now, sock, closeCalled, relayReq, lifeKnown>>
  /\ LifeFrame

\* the 'error' listener: a line on stderr; the connection is gone
SockError(c) ==
  /\ sock[c] \in {"CONNECTING", "OPEN"}
  /\ sock' = [sock EXCEPT ![c] = "FAILED"]
  /\ relayReq' = MapDel(relayReq, c)
  /\ lifeInbox' = [lifeInbox EXCEPT ![c] = {}]
  /\ UNCHANGED <<now, heartbeat, closeCalled, relayPresence, lifeKnown, late>>
  /\ LifeFrame

\* close(): the timer is cleared; an open socket is sent CLOSE and closed
Close(c) ==
  /\ heartbeat' = [heartbeat EXCEPT ![c] = << >>]
  /\ IF sock[c] = "OPEN"
       THEN /\ sock' = [sock EXCEPT ![c] = "CLOSED"]
            /\ relayReq' = MapDel(relayReq, c)
            /\ lifeInbox' = [lifeInbox EXCEPT ![c] = {}]
       ELSE UNCHANGED <<sock, relayReq, lifeInbox>>
  /\ closeCalled' = [closeCalled EXCEPT ![c] = TRUE]
  /\ UNCHANGED <<now, relayPresence, lifeKnown, late>>
  /\ LifeFrame

\* the 'message' listener takes one presence event off the socket
LifeDeliver(c) ==
  /\ lifeInbox[c] # {}
  /\ \E e \in lifeInbox[c] :
       /\ lifeInbox' = [lifeInbox EXCEPT ![c] = @ \ {e}]
       /\ lifeKnown' = [lifeKnown EXCEPT ![c] = HandlePresence(@, e)]
  /\ UNCHANGED <<now, sock, heartbeat, closeCalled, relayPresence, relayReq, late>>
  /\ LifeFrame

\* a time thirty seconds earlier, no earlier than floor
Earlier(t, floor) == IF t - 30 < floor THEN floor ELSE t - 30

\* thirty seconds pass, once no heartbeat is due.  Past the horizon the clock
\* stands and every recorded time moves back instead: the code compares
\* differences of times only, and a presence event that has reached time 0 is
\* older than the lookback of every later subscription.
Tick ==
  /\ \A c \in LifeClients : ~Due(c)
  /\ IF now < 30 * MaxTicks
       THEN /\ now' = now + 30
            /\ UNCHANGED <<heartbeat, relayPresence, relayReq>>
       ELSE /\ now' = now
            /\ heartbeat' = [c \in LifeClients |->
                               IF heartbeat[c] = << >> THEN << >>
                               ELSE <<Earlier(heartbeat[c][1], now)>>]
            /\ relayPresence' = [c \in DOMAIN relayPresence |-> Earlier(relayPresence[c], 0)]
            /\ relayReq' = [c \in DOMAIN relayReq |-> Earlier(relayReq[c], 0 - PRESENCE_WINDOW_S)]
  /\ UNCHANGED <<sock, closeCalled, lifeInbox, lifeKnown, late>>
  /\ LifeFrame

LifeInit == StoreInit /\ BufIdle /\ Idle

LifeNext ==
  \/ \E c \in LifeClients : Connect(c)
  \/ \E c \in LifeClients : Open(c)
  \/ \E c \in LifeClients : Heartbeat(c)
  \/ \E c \in LifeClients : SockError(c)
  \/ \E c \in LifeClients : Close(c)
  \/ \E c \in LifeClients : LifeDeliver(c)
  \/ Tick

SpecLifecycle == LifeInit /\ [][LifeNext]_vars

\* a connecting socket opens unless it fails, and of the sockets of a client
\* that connects again and again one opens; a due timer fires, a received
\* event is handled, time passes; nothing obliges the caller to call
\* connect() or close()
LifeFairness ==
  /\ \A c \in LifeClients : SF_vars(Open(c))
  /\ \A c \in LifeClients : WF_vars(Heartbeat(c))
  /\ \A c \in LifeClients : WF_vars(LifeDeliver(c))
  /\ WF_vars(Tick)

SpecLifecycleFair == SpecLifecycle /\ LifeFairness

\* C26: once close() has returned the client has no heartbeat timer and has
\* published no presence since, whatever the socket's state when close() was
\* called.
C26_CloseStopsEverything ==
  \A c \in LifeClients :
    closeCalled[c] => (heartbeat[c] = << >> /\ c \notin late)

\* close() on an open socket: the timer is gone and the socket closed
C26_CloseOfOpenSocket ==
  [][\A c \in LifeClients :
       (Close(c) /\ sock[c] = "OPEN") =>
         (heartbeat'[c] = << >> /\ sock'[c] = "CLOSED" /\ c \notin DOMAIN relayReq')]_vars


\* C28: a client whose open connection failed has an open socket again some
\* time later, whoever reopens it, unless the caller closed the client.
C28_ConnectionReestablished ==
  \A c \in LifeClients :
    (sock[c] = "FAILED" /\ heartbeat[c] # << >>) ~> (sock[c] = "OPEN" \/ closeCalled[c])

\* the one step that takes a client out of a failed connection is connect()
C28_OnlyConnectLeavesFailure ==
  [][\A c \in LifeClients :
       (sock[c] = "FAILED" /\ sock'[c] # "FAILED") =>
         (sock'[c] = "CONNECTING" /\ heartbeat'[c] = << >>)]_vars

\* two clients with open sockets, nothing on its way to the second: the
\* first is among the second's known agents
C29_ActivePeersListed ==
  \A a, b \in LifeClients :
    (sock[a] = "OPEN" /\ sock[b] = "OPEN" /\ lifeInbox[b] = {}) => a \in lifeKnown[b]

\* the relay's answer to the subscription of a client that connects holds a
\* presence event of every peer whose socket is open
C29_ReplayCoversActivePeers ==
  [][\A b \in LifeClients :
       Open(b) => \A a \in LifeClients : sock[a] = "OPEN" => a \in lifeInbox'[b]]_vars

\* connect() subscribes with since = now - 90 s, publishes a presence event at
\* once and one every 60 s while the socket is open
C29_ConnectSchedule ==
  [][\A c \in LifeClients :
       /\ Open(c) =>
            /\ relayReq'[c] = now - 90
            /\ relayPresence'[c] = now
            /\ heartbeat'[c] = <<now + 60>>
       /\ (Heartbeat(c) /\ sock[c] = "OPEN") =>
            /\ relayPresence'[c] = now
            /\ now = relayPresence[c] + 60
            /\ heartbeat'[c] = <<now + 60>>]_vars

\* C29: a client that connects learns from the relay a presence event of every
\* peer that connected before it and is still connected, and lists it once the
\* event is handled; connect() subscribes with a lookback of 90 s and publishes
\* presence at once and every 60 s.
C29_NewcomerLearnsActivePeers ==
  /\ []C29_ActivePeersListed
  /\ C29_ReplayCoversActivePeers
  /\ C29_ConnectSchedule

\* a newcomer is being told of a peer it never heard of, whose presence event
\* of connecting is older than the newcomer's lookback
C29_Witness ==
  \E a, b \in LifeClients :
    /\ a # b
    /\ sock[a] = "OPEN"
    /\ sock[b] = "OPEN"
    /\ a \in lifeInbox[b]
    /\ a \notin lifeKnown[b]
    /\ relayReq[a] + PRESENCE_WINDOW_S < relayReq[b]


\* --------------------------------- the stream handlers, await by await (SpecHandler)
\* GET /agent/stream and GET /sse of two agents, after the team was found and
\* the headers were flushed.  An awaited call resolves or rejects in a step of
\* its own, and the response may emit 'close' between any two steps.

HandlerFrame == UNCHANGED <<storeVars, bufVars, sharedVars, hubVars, pubVars, relayVars, cfgVars, orderVars, lifeVars, recvVars, waitVars, snapVars, joinVars, exportVars>>

Routes == {"stream", "sse"}

\* the handler up to its first await: setInterval, then store.getAgent
\* (/agent/stream) or createAgentMcpServer (/sse)
HandlerStart(r, rt) ==
  /\ pc[r] = "idle"
  /\ route' = [route EXCEPT ![r] = rt]
  /\ keepAlive' = [keepAlive EXCEPT ![r] = TRUE]
  /\ pc' = [pc EXCEPT ![r] = IF rt = "stream" THEN "getAgent" ELSE "createServer"]
  /\ UNCHANGED <<resClosed, closeListener, inRegistry, saved, lastWrite>>
  /\ HandlerFrame

\* the awaited call resolves and the handler runs to its next await or its end
AwaitResolves(r) ==
  /\ pc[r] \in {"getAgent", "createServer", "saveAgent"}
  /\ IF pc[r] = "saveAgent"
       THEN /\ saved' = [saved EXCEPT ![r] = TRUE]
            /\ inRegistry' = [inRegistry EXCEPT ![r] = (route[r] = "stream")]
            /\ closeListener' = [closeListener EXCEPT ![r] = TRUE]
            /\ pc' = [pc EXCEPT ![r] = "streaming"]
       ELSE /\ pc' = [pc EXCEPT ![r] = "saveAgent"]
            /\ UNCHANGED <<saved, inRegistry, closeListener>>
  /\ UNCHANGED <<route, keepAlive, resClosed, lastWrite>>
  /\ HandlerFrame

\* the awaited call rejects: /sse catches, clears the timer and calls next(err);
\* /agent/stream has no try
AwaitRejects(r) ==
  /\ pc[r] \in {"getAgent", "createServer", "saveAgent"}
  /\ pc' = [pc EXCEPT ![r] = "thrown"]
  /\ keepAlive' = [keepAlive EXCEPT ![r] = IF route[r] = "sse" THEN FALSE ELSE @]
  /\ UNCHANGED <<route, resClosed, closeListener, inRegistry, saved, lastWrite>>
  /\ HandlerFrame

\* the response emits 'close'; the listener, if attached, clears the timer,
\* deletes the registry entry and removes the agent from the store
ResClose(r) ==
  /\ pc[r] # "idle"
  /\ ~resClosed[r]
  /\ resClosed' = [resClosed EXCEPT ![r] = TRUE]
  /\ IF closeListener[r]
       THEN /\ keepAlive' = [keepAlive EXCEPT ![r] = FALSE]
            /\ inRegistry' = [inRegistry EXCEPT ![r] = FALSE]
            /\ saved' = [saved EXCEPT ![r] = FALSE]
       ELSE UNCHANGED <<keepAlive, inRegistry, saved>>
  /\ UNCHANGED <<route, pc, closeListener, lastWrite>>
  /\ HandlerFrame

\* the keep-alive interval fires: res.write(': keep-alive')
KeepAliveFires(r) ==
  /\ keepAlive[r]
  /\ lastWrite' = [lastWrite EXCEPT ![r] = IF resClosed[r] THEN "closed" ELSE "open"]
  /\ UNCHANGED <<route, pc, keepAlive, resClosed, closeListener, inRegistry, saved>>
  /\ HandlerFrame

HandlerInit == StoreInit /\ BufIdle /\ Idle

HandlerNext ==
  \/ \E r \in Requests, rt \in Routes : HandlerStart(r, rt)
  \/ \E r \in Requests : AwaitResolves(r)
  \/ \E r \in Requests : AwaitRejects(r)
  \/ \E r \in Requests : ResClose(r)
  \/ \E r \in Requests : KeepAliveFires(r)

SpecHandler == HandlerInit /\ [][HandlerNext]_vars

\* C27: once a stream's response has closed and its handler has run to its
\* end, the keep-alive timer is stopped and has not written to the closed
\* response, and the agent has neither a registry entry nor a store record.
C27_ClosedStreamIsCleanedUp ==
  \A r \in Requests :
    (resClosed[r] /\ pc[r] \in {"streaming", "thrown"}) =>
      /\ ~keepAlive[r]
      /\ lastWrite[r] # "closed"
      /\ ~inRegistry[r]
      /\ ~saved[r]

\* a close that finds the listener attached cleans up
C27_CloseAfterListenerCleansUp ==
  [][\A r \in Requests :
       (ResClose(r) /\ closeListener[r]) =>
         (~keepAlive'[r] /\ ~inRegistry'[r] /\ ~saved'[r])]_vars

\* a store failure on /sse stops the timer
C27_SseFailureStopsTimer ==
  \A r \in Requests : (route[r] = "sse" /\ pc[r] = "thrown") => ~keepAlive[r]


\* ------------------------------------- send, stream and receive (SpecReceive)
\* The hub with team t1, agent bob of t1 on GET /agent/stream through a
\* HubClient, and alice of t1 sending to bob.  The hub's handlers are the ones
\* of SpecHub; the client reads the stream it opened last.

RecvFrame == UNCHANGED <<storeVars, subject, cap, hist, nostrBuffer, knownAgents, sharedVars, hubVars, pubVars, relayVars, cfgVars, orderVars, lifeVars, handlerVars, waitVars, snapVars, joinVars, exportVars>>

\* the stream of the client's EventSource: the one opened last, 0 if it closed
CurrentStream == IF nextStream - 1 \in DOMAIN streams THEN nextStream - 1 ELSE 0

\* es.onmessage: JSON.parse(event.data) is pushed on messageBuffer
EsMessage ==
  /\ CurrentStream # 0
  /\ esRead[CurrentStream] < Len(streams[CurrentStream].out)
  /\ hubClientBuffer' =
       Append(hubClientBuffer, JsonParse(streams[CurrentStream].out[esRead[CurrentStream] + 1]))
  /\ esRead' = [esRead EXCEPT ![CurrentStream] = @ + 1]
  /\ UNCHANGED received
  /\ RecvFrame

\* the receive tool: hub.flushMessages() returns the buffer and empties it
ClientReceive ==
  /\ hubClientBuffer # << >>
  /\ received' = received \o [i \in 1 .. Len(hubClientBuffer) |-> hubClientBuffer[i].id]
  /\ hubClientBuffer' = << >>
  /\ UNCHANGED esRead
  /\ RecvFrame

\* GET /agent/list: name and pendingMessages of the agents of team t
AgentList(s, t) ==
  { [name |-> a.name, pendingMessages |-> Len(a.messageBuffer)] : a \in MemListAgents(s, t) }

RecvInit == StoreInit /\ BufIdle /\ Idle

RecvNext ==
  \/ HubCreateTeam("t1")
  \/ HubStream("t1", "bob")
  \/ \E sid \in 1 .. MaxStreams : HubClose(sid)
  \/ HubSend("t1", "alice", "bob")
  \/ EsMessage
  \/ ClientReceive

SpecReceive == RecvInit /\ [][RecvNext]_vars

\* the ids in a sequence of messages
IdsOf(buf) == {buf[i].id : i \in 1 .. Len(buf)}

\* the messages the hub's store holds for bob
HubBufferOfBob ==
  LET a == MemGetAgent(mem, "t1", "bob") IN IF a = << >> THEN << >> ELSE a[1].messageBuffer

\* the messages sent to bob that no receive of bob has returned
Unreceived == (1 .. nextId - 1) \ Elements(received)

\* C30: a message bob's receive has returned is neither in the client's
\* buffer nor in the hub's store buffer for bob, pendingMessages of bob counts
\* unreceived messages only, and no message is returned twice.
C30_ReceivedMessagesAreDiscarded ==
  /\ Elements(received) \cap IdsOf(hubClientBuffer) = {}
  /\ Elements(received) \cap IdsOf(HubBufferOfBob) = {}
  /\ \A a \in AgentList(mem, "t1") :
       a.name = "bob" => a.pendingMessages <= Cardinality(Unreceived)
  /\ \A i, j \in 1 .. Len(received) : received[i] = received[j] => i = j

\* on the client's side a received message is gone and never returned again
C30_ClientDrainsItsBuffer ==
  /\ Elements(received) \cap IdsOf(hubClientBuffer) = {}
  /\ \A i, j \in 1 .. Len(received) : received[i] = received[j] => i = j


\* ------------------------------------- a reader beside a push (SpecTrim)
\* The processes of SpecShared, with pushMessage called with a maxBuffer of 1
\* so that the second push has something to trim.

\* pushMessage("t1", "bob", msg, maxBuffer) resumes after `await exists`
PushAfterExistsCap(p, maxBuffer) ==
  /\ conn[p].op = "pushExists" /\ conn[p].pending = << >>
  /\ conn' = [conn EXCEPT ![p] =
                IF ~conn[p].replies[1] THEN IdleConn
                ELSE [op |-> "pushPipe",
                      pending |-> RedPushCmds("t1", "bob", conn[p].msg[1], maxBuffer),
                      replies |-> << >>,
                      msg |-> conn[p].msg]]
  /\ UNCHANGED <<red, nextId, returned>>
  /\ SharedFrame

TrimNext ==
  \/ \E p \in Procs : SharedCallPush(p)
  \/ \E p \in Procs : SharedCallFlush(p)
  \/ \E p \in Procs : ServerExec(p)
  \/ \E p \in Procs : PushAfterExistsCap(p, 1)
  \/ \E p \in Procs : PushReturn(p)
  \/ \E p \in Procs : FlushReturn(p)

SpecTrim == SharedInit /\ [][TrimNext]_vars

\* C31: with every push called with a maxBuffer of 1, no flushMessages of
\* another process reads more than one message.
C31_ReaderNeverSeesOverCap ==
  \A p \in Procs :
    (conn[p].op = "flush" /\ conn[p].replies # << >>) => Len(conn[p].replies[1]) <= 1

\* once no call is in progress the buffer is within the cap
C31_TrimmedAtRest ==
  (\A p \in Procs : conn[p].op = "idle") =>
    Len(RedFlushMessages(red, "t1", "bob").ret) <= 1

\* ------------------------- a reconnect beside a push (SpecReconnect)
\* One process runs the store calls of GET /agent/stream for bob, who is
\* registered: getAgent, then saveAgent with the buffer it read.  The other
\* pushes.  Nothing flushes and MAX_BUFFER is out of reach, so every message
\* pushed belongs in the buffer.

\* the handler calls store.getAgent("t1", "bob"): the pipeline is sent
StreamCallGet(p) ==
  /\ conn[p].op = "idle"
  /\ p = "hub1"
  /\ conn' = [conn EXCEPT ![p] = [op |-> "streamGet",
                                  pending |-> RedGetAgentCmds("t1", "bob"),
                                  replies |-> << >>,
                                  msg |-> << >>]]
  /\ UNCHANGED <<red, nextId, returned>>
  /\ SharedFrame

\* the handler resumes after `await store.getAgent` and calls saveAgent with
\* existing?.messageBuffer ?? []
StreamAfterGet(p) ==
  /\ conn[p].op = "streamGet" /\ conn[p].pending = << >>
  /\ LET existing == RedAgentOf(conn[p].replies[1], conn[p].replies[2])
         buf == IF existing = << >> THEN << >> ELSE existing[1].messageBuffer
         rec == AgentRecord("t1", "bob", [sessionId |-> "s2", connectedAt |-> 2], buf)
     IN conn' = [conn EXCEPT ![p] = [op |-> "streamSave",
                                     pending |-> RedSaveAgentCmds(rec),
                                     replies |-> << >>,
                                     msg |-> << >>]]
  /\ UNCHANGED <<red, nextId, returned>>
  /\ SharedFrame

\* the handler resumes after `await store.saveAgent`
StreamAfterSave(p) ==
  /\ conn[p].op = "streamSave" /\ conn[p].pending = << >>
  /\ conn' = [conn EXCEPT ![p] = IdleConn]
  /\ UNCHANGED <<red, nextId, returned>>
  /\ SharedFrame

ReconnectNext ==
  \/ \E p \in Procs : SharedCallPush(p)
  \/ \E p \in Procs : ServerExec(p)
  \/ \E p \in Procs : PushAfterExists(p)
  \/ \E p \in Procs : PushReturn(p)
  \/ \E p \in Procs : StreamCallGet(p)
  \/ \E p \in Procs : StreamAfterGet(p)
  \/ \E p \in Procs : StreamAfterSave(p)

SpecReconnect == SharedInit /\ [][ReconnectNext]_vars

\* C36: once the pushes and the reconnects have completed, every message
\* pushed is in bob's buffer.
C36_ReconnectLosesNoMessage ==
  (\A p \in Procs : conn[p].op = "idle") =>
    \A id \in 1 .. nextId - 1 :
      id \in IdsOf(RedFlushMessages(red, "t1", "bob").ret)

\* without a reconnect in between no push is lost
C36_PushesAloneKeepEverything ==
  [][(\A p \in Procs : conn[p].op \notin {"streamGet", "streamSave"} /\
                       conn'[p].op \notin {"streamGet", "streamSave"}) =>
       IdsOf(RedFlushMessages(red, "t1", "bob").ret)
         \subseteq IdsOf(RedFlushMessages(red', "t1", "bob").ret)]_vars


\* C37: every key of the live-connection registry has an agent record in the
\* store for the same (team, agent).
C37_RegisteredAgentsAreStored ==
  \A key \in DOMAIN connections : MemGetAgent(mem, key[1], key[2]) # << >>


\* the handlers of /agent/stream, its close, send and create keep every
\* registered agent stored: only the close of an /sse response does not
C37_StreamHandlersKeepItStored ==
  [][(C37_RegisteredAgentsAreStored /\
      \A sid \in DOMAIN streams : streams[sid].route = "sse" => sid \in DOMAIN streams')
       => \A key \in DOMAIN connections' : MemGetAgent(mem', key[1], key[2]) # << >>]_vars


\* ------------------------------------ a send that waits for the socket (SpecWait)
\* The socket and the sends of SpecPublish up to the publish, with the time a
\* send has waited, in steps of 5 s.  The 10 s timer of a waiting send fires
\* before the time goes past it.

SEND_WAIT_MS == 10000

WaitFrame == UNCHANGED <<storeVars, bufVars, sharedVars, hubVars, pubVars, relayVars, cfgVars, orderVars, lifeVars, handlerVars, recvVars, snapVars, joinVars, exportVars>>

\* the seconds call has waited
Elapsed(call) == IF call \in DOMAIN elapsed THEN elapsed[call] ELSE 0

\* five seconds pass for the sends that wait, none of their timers being due
WaitTick ==
  /\ Waiting(promises, 1) # << >>
  /\ \A call \in Elements(Waiting(promises, 1)) : Elapsed(call) * 1000 < SEND_WAIT_MS
  /\ elapsed' = [call \in DOMAIN elapsed \cup Elements(Waiting(promises, 1)) |->
                   IF call \in Elements(Waiting(promises, 1))
                   THEN Elapsed(call) + 5 ELSE elapsed[call]]
  /\ WaitFrame

\* the 10 s timer of a waiting send fires when it is due
WaitTimeoutDue(call) ==
  /\ Elapsed(call) * 1000 = SEND_WAIT_MS
  /\ WaitTimeout(call)

WaitNext ==
  \/ WsConnect
  \/ WsOpen
  \/ WsClose
  \/ \E id \in EventIds : Send(id)
  \/ \E call \in PubCalls : WaitTimeoutDue(call)
  \/ WaitTick

SpecWait == PubInit /\ [][WaitNext]_vars

\* a send called while the socket is connecting is pending, not failed
C32_WaitsWhileConnecting ==
  [][\A id \in EventIds :
       (Send(id) /\ ws = "CONNECTING") =>
         /\ promises'[NextCall].state = "pending"
         /\ promises'[NextCall].write = "waiting"
         /\ pendingPublish' = pendingPublish]_vars

\* when the socket opens every send that waits is published
C32_PublishesOnOpen ==
  [][WsOpen =>
       \A call \in Elements(Waiting(promises, 1)) :
         /\ promises'[call].state = "pending"
         /\ promises'[call].write = "queued"
         /\ pendingPublish'[promises[call].id] \in Elements(Waiting(promises, 1))]_vars

\* no send waits longer than 10 s; a wait that did not end with the socket
\* open ended within 10 s with a connection error
C32_WaitIsBounded ==
  \A call \in DOMAIN promises :
    /\ Elapsed(call) * 1000 <= SEND_WAIT_MS
    /\ promises[call].write = "waiting" => ws = "CONNECTING"
    /\ promises[call].error = ConnectionTimeout => Elapsed(call) * 1000 = SEND_WAIT_MS
    /\ (promises[call].state = "rejected" /\ call \in DOMAIN elapsed) =>
         promises[call].error \in {ConnectionTimeout, ConnectionError}

\* a send before any connect() fails at once with the not-connected error
\* and publishes nothing
C32_NotConnectedFailsAtOnce ==
  [][\A id \in EventIds :
       (Send(id) /\ ws = "none") =>
         /\ promises'[NextCall].state = "rejected"
         /\ promises'[NextCall].error = NotConnected
         /\ promises'[NextCall].write = "none"
         /\ pendingPublish' = pendingPublish]_vars

\* C32: a send called while the socket is connecting waits: it is published
\* if the socket opens within 10 s and fails with a connection error no later
\* than 10 s after the call otherwise; a send before any connect() fails at
\* once with the not-connected error and publishes nothing.
C32_SendWaitsForTheSocket ==
  /\ C32_WaitsWhileConnecting
  /\ C32_PublishesOnOpen
  /\ []C32_WaitIsBounded
  /\ C32_NotConnectedFailsAtOnce

\* one send timed out after 10 s, another was published after a wait of 5 s
C32_Witness ==
  \E a, b \in DOMAIN promises :
    /\ promises[a].error = ConnectionTimeout /\ Elapsed(a) = 10
    /\ promises[b].write = "queued" /\ Elapsed(b) = 5

\* ------------------------------------------ inbound relay frames (SpecFrames)
\* The 'message' listener of NostrClient for agent bob, fed one frame after
\* another.  What JSON.parse returns is a value with its type; an event is a
\* record that holds the fields the frame carried.

JsNull == [type |-> "null"]
JsNumber == [type |-> "number"]
JsObject == [type |-> "object"]
JsArray(items) == [type |-> "array", items |-> items]

\* what the listener's state is after a frame: the buffer, the known agents,
\* the arguments handed to handleOk (<< >> if it was not called) and the
\* exception that left the code (<< >> if none)
ListenerResult(buf, known, ok, raised) ==
  [messageBuffer |-> buf, knownAgents |-> known, ok |-> ok, raised |-> raised]

\* the body of the try block of the 'message' listener
TryBlock(buf, known, agentName, data) ==
  IF ~IsJson(data) THEN ListenerResult(buf, known, << >>, <<"SyntaxError">>)
  ELSE LET msg == JsonParse(data) IN
    IF msg.type = "null" THEN ListenerResult(buf, known, << >>, <<"TypeError">>)
    ELSE IF msg.type # "array" THEN ListenerResult(buf, known, << >>, << >>)
    ELSE IF msg.items = << >> THEN ListenerResult(buf, known, << >>, << >>)
    ELSE IF msg.items[1] = "EVENT" THEN
      IF Len(msg.items) < 3 THEN ListenerResult(buf, known, << >>, << >>)
      ELSE LET event == msg.items[3] IN
        IF "kind" \notin DOMAIN event THEN ListenerResult(buf, known, << >>, << >>)
        ELSE IF event.kind \in {PRESENCE_KIND, AGENT_MSG_KIND} /\ "tags" \notin DOMAIN event
        THEN ListenerResult(buf, known, << >>, <<"TypeError">>)
        ELSE LET r == HandleEvent(buf, known, agentName, event)
             IN ListenerResult(r.messageBuffer, r.knownAgents, << >>, << >>)
    ELSE IF msg.items[1] = "OK" THEN
      ListenerResult(buf, known,
                     << [i \in 1 .. 3 |-> IF i + 1 <= Len(msg.items) THEN msg.items[i + 1] ELSE Undef] >>,
                     << >>)
    ELSE ListenerResult(buf, known, << >>, << >>)

\* a mutant of the listener: no try / catch around the body
OnMessageUncaught(buf, known, agentName, data) == TryBlock(buf, known, agentName, data)

\* ws.on('message', ...): the body, with everything it throws caught and dropped
OnMessage(buf, known, agentName, data) ==
  LET r == TryBlock(buf, known, agentName, data)
  IN ListenerResult(r.messageBuffer, r.knownAgents, r.ok, << >>)

\* the frames the relay sends: those that are malformed, and well-formed ones
MalformedFrames == {"garbage", "null", "number", "object", "empty", "eventonly",
                    "notags", "presencenotags", "nokind",
                    "nofrom", "notype", "untagged", "noagent"}
WellFormedFrames == {"direct", "broadcast", "other", "presence", "ok"}

EventFrame(event) == JsonStringify(JsArray(<<"EVENT", "sub", event>>))

Frame(name, id) ==
  CASE name = "garbage" -> SseMalformed
    [] name = "null" -> JsonStringify(JsNull)
    [] name = "number" -> JsonStringify(JsNumber)
    [] name = "object" -> JsonStringify(JsObject)
    [] name = "empty" -> JsonStringify(JsArray(<< >>))
    [] name = "eventonly" -> JsonStringify(JsArray(<<"EVENT", "sub">>))
    [] name = "notags" ->
         EventFrame([id |-> id, kind |-> AGENT_MSG_KIND, created_at |-> 1, content |-> "c"])
    [] name = "presencenotags" ->
         EventFrame([id |-> id, kind |-> PRESENCE_KIND, created_at |-> 1, content |-> ""])
    [] name = "nokind" -> EventFrame([id |-> id])
    [] name = "noagent" -> EventFrame(TaggedEvent(id, "t1", PRESENCE_KIND, << >>))
    [] name = "ok" -> JsonStringify(JsArray(<<"OK", "e1", TRUE, "">>))
    [] OTHER -> EventFrame(BufEvent(name, id))

FramesFrame == UNCHANGED <<mem, vol, red, live, subject, cap, hubClientBuffer, ws, relayInbox, relayLog, sharedVars, hubVars, relayVars, cfgVars, orderVars, lifeVars, handlerVars, recvVars, waitVars, snapVars, joinVars, exportVars>>

NostrOnFrame(name) ==
  /\ subject = "nostr"
  /\ nextId <= MaxPushes
  /\ LET r == OnMessage(nostrBuffer, knownAgents, "bob", Frame(name, nextId))
         pub == [promises |-> promises, pendingPublish |-> pendingPublish]
         after == IF r.ok = << >> THEN pub
                  ELSE HandleOk(pub, r.ok[1][1], r.ok[1][2], r.ok[1][3])
     IN
       /\ nostrBuffer' = r.messageBuffer
       /\ knownAgents' = r.knownAgents
       /\ hist' = IF Len(r.messageBuffer) > Len(nostrBuffer)
                  THEN Append(hist, r.messageBuffer[Len(r.messageBuffer)]) ELSE hist
       /\ promises' = after.promises
       /\ pendingPublish' = after.pendingPublish
       /\ ret' = r.raised
       /\ lastCall' = Call("onmessage", "", "", name)
  /\ nextId' = nextId + 1
  /\ FramesFrame

FramesInit == BufInit /\ subject = "nostr"

FramesNext == \E name \in MalformedFrames \cup WellFormedFrames : NostrOnFrame(name)

SpecFrames == FramesInit /\ [][FramesNext]_vars

\* C33 (part): a malformed frame raises nothing and leaves the message
\* buffer, the known agents, the pending-publish table, the socket and the
\* heartbeat as they were.
C33_MalformedFrameChangesNothing ==
  [][\A name \in MalformedFrames :
       NostrOnFrame(name) =>
         /\ ret' = << >>
         /\ nostrBuffer' = nostrBuffer /\ knownAgents' = knownAgents
         /\ pendingPublish' = pendingPublish /\ promises' = promises
         /\ ws' = ws /\ sock' = sock /\ heartbeat' = heartbeat]_vars

\* C33 (part): a well-formed message for bob is buffered whatever frames
\* came before it.
C33_LaterFramesAreProcessed ==
  [][\A name \in {"direct", "broadcast"} :
       NostrOnFrame(name) =>
         /\ Len(nostrBuffer') = Len(nostrBuffer) + 1
         /\ nostrBuffer'[Len(nostrBuffer')].id = nextId]_vars

DataPath == "/data/agent-hub.json"

\* a mutant of save(): the state written straight to the data file
TmpOfSame(path) == path

\* `${this.path}.tmp`
TmpOf(path) == IF path = DataPath THEN "/data/agent-hub.json.tmp" ELSE "tmp"

\* a part of a serialization: not JSON
PartialText == [partial |-> TRUE]

\* the file at a path: << >> if there is none, else << its text >>
FileOf(fs, path) == IF path \in DOMAIN fs THEN << fs[path] >> ELSE << >>

\* writeFileSync(path, text), before and after the data is written
WriteFileOpen(fs, path) == MapSet(fs, path, PartialText)
WriteFile(fs, path, text) == MapSet(fs, path, text)

\* renameSync(from, to)
Rename(fs, from, to) == MapSet(MapDel(fs, from), to, fs[from])

SnapFrame == UNCHANGED <<storeVars, bufVars, sharedVars, hubVars, pubVars, relayVars, cfgVars, orderVars, lifeVars, handlerVars, recvVars, waitVars, joinVars, exportVars>>

SnapMutations == {"createTeam", "saveAgent", "removeAgent", "pushMessage", "flushMessages"}

\* the data file a mutation of the VolumeStore leaves, as load / modify /
\* stringify compute it
SnapTarget(file, op, t, id) ==
  CASE op = "createTeam" -> VolCreateTeam(file, [id |-> t, apiKeyHash |-> t, createdAt |-> 0])
    [] op = "saveAgent" ->
         VolSaveAgent(file, AgentRecord(t, "bob", [sessionId |-> "s1", connectedAt |-> 1], << >>))
    [] op = "removeAgent" -> VolRemoveAgent(file, t, "bob")
    [] op = "pushMessage" -> VolPushMessage(file, t, "bob", TestMsg(id), MaxCap)
    [] op = "flushMessages" -> VolFlushMessages(file, t, "bob").store

\* a mutation up to its call of save(): the state is loaded and modified
SnapBegin(op, t) ==
  /\ savePc = "idle"
  /\ Cardinality(whole) < MaxMsgs
  /\ LET file == FileOf(disk, DataPath)
         target == SnapTarget(file, op, t, Cardinality(whole) + 1)
     IN IF target = file
        THEN UNCHANGED <<savePc, saveState>>
        ELSE /\ savePc' = "save"
             /\ saveState' = << JsonParse(target[1]) >>
  /\ opResult' = op
  /\ UNCHANGED <<disk, whole, readerSaw>>
  /\ SnapFrame

\* writeFileSync(tmp, ...) has opened the file
SnapWriteOpen ==
  /\ savePc = "save"
  /\ disk' = WriteFileOpen(disk, TmpOf(DataPath))
  /\ savePc' = "writing"
  /\ UNCHANGED <<saveState, whole, readerSaw, opResult>>
  /\ SnapFrame

\* writeFileSync(tmp, JSON.stringify(state)) returns
SnapWriteDone ==
  /\ savePc = "writing"
  /\ disk' = WriteFile(disk, TmpOf(DataPath), JsonStringify(saveState[1]))
  /\ savePc' = "written"
  /\ UNCHANGED <<saveState, whole, readerSaw, opResult>>
  /\ SnapFrame

\* renameSync(tmp, this.path): the mutation is complete
SnapRename ==
  /\ savePc = "written"
  /\ disk' = Rename(disk, TmpOf(DataPath), DataPath)
  /\ savePc' = "idle"
  /\ whole' = whole \cup {saveState[1]}
  /\ saveState' = << >>
  /\ UNCHANGED <<readerSaw, opResult>>
  /\ SnapFrame

\* the process is killed in the middle of a mutation and started again
SnapCrash ==
  /\ savePc # "idle"
  /\ savePc' = "idle"
  /\ saveState' = << >>
  /\ opResult' = "killed"
  /\ UNCHANGED <<disk, whole, readerSaw>>
  /\ SnapFrame

\* somebody outside the process reads the data file
SnapRead ==
  /\ readerSaw' = FileOf(disk, DataPath)
  /\ UNCHANGED <<disk, savePc, saveState, whole, opResult>>
  /\ SnapFrame

SnapInit == StoreInit /\ BufIdle /\ Idle

SnapNext ==
  \/ \E op \in SnapMutations, t \in Teams : SnapBegin(op, t)
  \/ SnapWriteOpen
  \/ SnapWriteDone
  \/ SnapRename
  \/ SnapCrash
  \/ SnapRead

SpecSnapshot == SnapInit /\ [][SnapNext]_vars

\* a file that is absent or the serialization of a state some whole mutation saved
WholeFile(file) ==
  file = << >> \/ (IsJson(file[1]) /\ JsonParse(file[1]) \in whole)

\* C34 (part): the data file, and what a reader finds in it, is absent or
\* the complete serialization of the state after some whole mutation.
C34_DataFileIsWhole ==
  WholeFile(FileOf(disk, DataPath)) /\ WholeFile(readerSaw)

\* C34 (part): only the rename changes the data file, and it puts the
\* state save() was called with in its place; a mutation that is killed
\* before leaves the data file as it was.
C34_OnlyRenameChangesTheFile ==
  [][/\ ~SnapRename => FileOf(disk', DataPath) = FileOf(disk, DataPath)
     /\ SnapRename => FileOf(disk', DataPath) = << JsonStringify(saveState[1]) >>]_vars

\* C34: every mutation of the snapshot adapter writes the new state to a
\* temporary path and renames it over the data file, so the data file is at
\* every instant absent or a complete serialization of the state after a
\* whole mutation, no reader sees a partly written state, and a mutation
\* interrupted before the rename leaves the previous state intact.
C34_SnapshotIsAtomic == []C34_DataFileIsWhole /\ C34_OnlyRenameChangesTheFile

\* a mutation was killed while it wrote: the temporary file holds a part of
\* the new state, the data file the previous one, which a reader has read
C34_Witness ==
  /\ savePc = "idle" /\ opResult = "killed"
  /\ TmpOf(DataPath) \in DOMAIN disk /\ ~IsJson(disk[TmpOf(DataPath)])
  /\ DataPath \in DOMAIN disk
  /\ readerSaw = FileOf(disk, DataPath)

\* --------------------------------- reads of the snapshot that fail (SpecFault)
\* The VolumeStore called while readFileSync may throw (EACCES, EIO) or the
\* data file may hold text that is not JSON, and while writeFileSync may
\* throw.  load() catches whatever the read or the parse throws and goes on
\* with EMPTY; save() catches nothing.

FaultFrame == UNCHANGED <<mem, vol, red, lastCall, ret, live, savePc, saveState, whole, readerSaw, bufVars, sharedVars, hubVars, pubVars, relayVars, cfgVars, orderVars, lifeVars, handlerVars, recvVars, waitVars, joinVars, exportVars>>

\* the snapshot of a store that holds team t1, agent bob and one message
FaultSnapshot ==
  VolPushMessage(
    VolSaveAgent(VolCreateTeam(<< >>, [id |-> "t1", apiKeyHash |-> "t1", createdAt |-> 0]),
                 AgentRecord("t1", "bob", [sessionId |-> "s1", connectedAt |-> 1], << >>)),
    "t1", "bob", TestMsg(0), MaxCap)

\* what load() goes on with: the file as read, nothing when the read threw
FileAsRead(fs, readFails) == IF readFails THEN << >> ELSE FileOf(fs, DataPath)

\* load() went on with EMPTY although there is a data file
Substituted(fs, readFails) ==
  DataPath \in DOMAIN fs /\ (readFails \/ ~IsJson(fs[DataPath]))

OpResult(status, op, value, substituted) ==
  [status |-> status, op |-> op, value |-> value, substituted |-> substituted]

\* createTeam, saveAgent, removeAgent, pushMessage, flushMessages
FaultMutate(op, t, readFails, writeFails) ==
  /\ nextId <= MaxPushes
  /\ LET seen == FileAsRead(disk, readFails)
         target == SnapTarget(seen, op, t, nextId)
         saves == target # seen
     IN IF saves /\ writeFails
        THEN /\ opResult' = OpResult("failed", op, << >>, Substituted(disk, readFails))
             /\ disk' = WriteFileOpen(disk, TmpOf(DataPath))
        ELSE /\ opResult' = OpResult("ok", op,
                                     IF op = "flushMessages"
                                     THEN VolFlushMessages(seen, t, "bob").ret ELSE << >>,
                                     Substituted(disk, readFails))
             /\ disk' = IF saves THEN MapSet(disk, DataPath, target[1]) ELSE disk
  /\ nextId' = nextId + 1
  /\ FaultFrame

\* getTeam, getAgent
FaultRead(op, t, readFails) ==
  /\ nextId <= MaxPushes
  /\ LET seen == FileAsRead(disk, readFails)
     IN opResult' = OpResult("ok", op,
                             IF op = "getTeam" THEN VolGetTeam(seen, t)
                             ELSE VolGetAgent(seen, t, "bob"),
                             Substituted(disk, readFails))
  /\ nextId' = nextId + 1
  /\ UNCHANGED disk
  /\ FaultFrame

FaultInit ==
  /\ StoreInit /\ BufIdle
  /\ SharedIdle /\ HubIdle /\ PubIdle /\ RelayIdle /\ CfgIdle /\ OrderIdle
  /\ LifeIdle /\ HandlerIdle /\ RecvIdle /\ WaitIdle /\ JoinIdle /\ ExportIdle
  /\ savePc = "idle" /\ saveState = << >> /\ whole = {} /\ readerSaw = << >>
  /\ opResult = << >>
  /\ disk \in {EmptyMap, MapSet(EmptyMap, DataPath, FaultSnapshot[1]),
               MapSet(EmptyMap, DataPath, PartialText)}

FaultNext ==
  \/ \E op \in SnapMutations, t \in Teams, readFails, writeFails \in BOOLEAN :
       FaultMutate(op, t, readFails, writeFails)
  \/ \E op \in {"getTeam", "getAgent"}, t \in Teams, readFails \in BOOLEAN :
       FaultRead(op, t, readFails)

SpecFault == FaultInit /\ [][FaultNext]_vars

\* C35: every I/O failure inside a store operation, a failed or unparsable
\* read of the snapshot file included, surfaces as a failed operation: no
\* operation succeeds, or persists a state, computed from a state
\* substituted for the one it could not read.
C35_FailedReadFailsTheCall ==
  opResult = << >> \/ ~(opResult.status = "ok" /\ opResult.substituted)

\* C35 (the part the code keeps): a write that fails fails the operation,
\* and the data file stays as it was.
C35_FailedWriteFailsTheCall ==
  [][\A op \in SnapMutations, t \in Teams, readFails \in BOOLEAN :
       (FaultMutate(op, t, readFails, TRUE)
        /\ SnapTarget(FileAsRead(disk, readFails), op, t, nextId) # FileAsRead(disk, readFails))
       => /\ opResult'.status = "failed"
          /\ FileOf(disk', DataPath) = FileOf(disk, DataPath)]_vars

\* C35 (what the substitution costs): a state has been persisted that was
\* computed from EMPTY although the data file held a team
C35_SnapshotOverwritten ==
  /\ opResult # << >> /\ opResult.status = "ok" /\ opResult.substituted
  /\ opResult.op = "createTeam"
  /\ VolGetTeam(FileOf(disk, DataPath), "t2") # << >>
  /\ VolGetTeam(FileOf(disk, DataPath), "t1") = << >>

\* ----------------------------------- the setup tools on the hub transport (SpecJoin)
\* agent_hub_setup_join and agent_hub_setup_create of the MCP client with a
\* HubClient that starts unconfigured, one call at a time.  The hub accepts
\* the API keys of its teams; any request may also fail to connect.

JoinFrame == UNCHANGED <<storeVars, bufVars, sharedVars, hubVars, pubVars, relayVars, orderVars, lifeVars, handlerVars, recvVars, waitVars, snapVars, exportVars>>

DEFAULT_HUB_URL == "http://hub"

JoinKeys == {"team1", "wrong", ""}
JoinNames == {"bob", "carol", ""}

\* the answer of a setup tool, with the arguments it was called with
ToolResp(answer, apiKey, agentName) == [agentName |-> agentName, apiKey |-> apiKey, answer |-> answer]

\* the options the join tool configures the client with before the check
JoinOptions(opts, hubUrl, apiKey, agentName) ==
  HubConfigure(opts, Options(agentName, Undef, hubUrl, Undef, apiKey, Undef))

\* agent_hub_setup_join up to await hub.listAgents()
SetupJoin(apiKey, agentName) ==
  /\ joinPc = "idle"
  /\ IF HubIsConfigured(hubOpts)
     THEN /\ toolResp' = ToolResp("alreadyConfigured", apiKey, agentName)
          /\ UNCHANGED <<hubOpts, joinPc>>
     ELSE /\ hubOpts' = JoinOptions(hubOpts, DEFAULT_HUB_URL, apiKey, agentName)
          /\ joinPc' = "join"
          /\ toolResp' = ToolResp("pending", apiKey, agentName)
  /\ UNCHANGED <<nostrOpts, cfgIn, savedConfig, esOpen, hubKeys>>
  /\ JoinFrame

\* hub.listAgents() resolves: the configuration is saved and the stream opened
JoinVerified ==
  /\ joinPc = "join"
  /\ hubOpts.apiKey \in hubKeys
  /\ savedConfig' = << hubOpts >>
  /\ esOpen' = TRUE
  /\ toolResp' = [toolResp EXCEPT !.answer = "joined"]
  /\ joinPc' = "idle"
  /\ UNCHANGED <<cfgVars, hubKeys>>
  /\ JoinFrame

\* hub.listAgents() rejects: 401 for a key the hub does not know, or no connection
JoinRejected(unreachable) ==
  /\ joinPc = "join"
  /\ hubOpts.apiKey \notin hubKeys \/ unreachable
  /\ toolResp' = [toolResp EXCEPT !.answer = "Invalid API key or connection error"]
  /\ joinPc' = "idle"
  /\ UNCHANGED <<cfgVars, savedConfig, esOpen, hubKeys>>
  /\ JoinFrame

\* agent_hub_setup_create up to await hub.createTeam()
SetupCreate(agentName) ==
  /\ joinPc = "idle"
  /\ IF HubIsConfigured(hubOpts)
     THEN /\ toolResp' = ToolResp("alreadyConfigured", "", agentName)
          /\ UNCHANGED <<hubOpts, joinPc>>
     ELSE /\ hubOpts' = HubConfigure(hubOpts, Options(agentName, Undef, DEFAULT_HUB_URL, Undef, "", Undef))
          /\ joinPc' = "create"
          /\ toolResp' = ToolResp("pending", "", agentName)
  /\ UNCHANGED <<nostrOpts, cfgIn, savedConfig, esOpen, hubKeys>>
  /\ JoinFrame

\* hub.createTeam() resolves with the key of a new team
CreateResolved ==
  /\ joinPc = "create"
  /\ LET apiKey == "team2"
         opts == HubConfigure(hubOpts, Options(hubOpts.agentName, Undef, DEFAULT_HUB_URL, Undef, apiKey, Undef))
     IN /\ hubKeys' = hubKeys \cup {apiKey}
        /\ hubOpts' = opts
        /\ savedConfig' = << opts >>
  /\ esOpen' = TRUE
  /\ toolResp' = [toolResp EXCEPT !.answer = "created"]
  /\ joinPc' = "idle"
  /\ UNCHANGED <<nostrOpts, cfgIn>>
  /\ JoinFrame

\* hub.createTeam() rejects
CreateRejected ==
  /\ joinPc = "create"
  /\ toolResp' = [toolResp EXCEPT !.answer = "Error"]
  /\ joinPc' = "idle"
  /\ UNCHANGED <<cfgVars, savedConfig, esOpen, hubKeys>>
  /\ JoinFrame

JoinInit == StoreInit /\ BufIdle /\ Idle

JoinNext ==
  \/ \E apiKey \in JoinKeys, agentName \in JoinNames : SetupJoin(apiKey, agentName)
  \/ JoinVerified
  \/ \E unreachable \in BOOLEAN : JoinRejected(unreachable)
  \/ \E agentName \in JoinNames : SetupCreate(agentName)
  \/ CreateResolved
  \/ CreateRejected

SpecJoin == JoinInit /\ [][JoinNext]_vars

\* C38: a join that fails its credential check leaves the client
\* unconfigured: isConfigured() is false, nothing is saved, no connection is
\* opened, so that a later setup call is not answered with alreadyConfigured.
C38_FailedJoinLeavesUnconfigured ==
  [][\A unreachable \in BOOLEAN :
       JoinRejected(unreachable) =>
         /\ ~HubIsConfigured(hubOpts')
         /\ savedConfig' = savedConfig
         /\ esOpen' = esOpen]_vars

\* C38 (the part the code keeps): a failed join saves nothing and opens no
\* connection.
C38_FailedJoinSavesNothing ==
  [][\A unreachable \in BOOLEAN :
       JoinRejected(unreachable) => savedConfig' = savedConfig /\ esOpen' = esOpen]_vars

\* C38 (what follows): a setup call is answered with alreadyConfigured
\* although nothing was ever saved or connected
C38_LockedOut ==
  toolResp.answer = "alreadyConfigured" /\ savedConfig = << >> /\ ~esOpen

\* -------------------------------------- the known agents of a client (SpecKnown)
\* The NostrClient of agent bob: events of every shape arrive, and the
\* caller connects, closes, flushes and lists.  A peer that closes or stops
\* its heartbeat publishes nothing, so its leaving is no step of this client.

KnownFrame == UNCHANGED <<mem, vol, red, nextId, live, subject, cap, hist, hubClientBuffer, nostrBuffer, knownAgents, promises, pendingPublish, relayInbox, relayLog, sharedVars, hubVars, relayVars, cfgVars, orderVars, lifeVars, handlerVars, recvVars, waitVars, snapVars, joinVars, exportVars>>

\* listAgents(): Array.from(this.knownAgents.values())
NostrListAgents(known) == { known[name] : name \in DOMAIN known }

KnownListAgents ==
  /\ subject = "nostr"
  /\ lastCall' = Call("listAgents", "", "", << >>)
  /\ ret' = NostrListAgents(knownAgents)
  /\ UNCHANGED ws
  /\ KnownFrame

\* connect(), the socket opening
KnownConnect ==
  /\ subject = "nostr"
  /\ ws \in {"none", "CLOSED"}
  /\ ws' = "OPEN"
  /\ lastCall' = Call("connect", "", "", << >>)
  /\ ret' = NoRet
  /\ KnownFrame

\* close()
KnownClose ==
  /\ subject = "nostr"
  /\ ws = "OPEN"
  /\ ws' = "CLOSED"
  /\ lastCall' = Call("close", "", "", << >>)
  /\ ret' = NoRet
  /\ KnownFrame

KnownInit == BufInit /\ subject = "nostr"

KnownNext ==
  \/ \E shape \in EventShapes : ws = "OPEN" /\ NostrOnEvent(shape)
  \/ NostrFlushMessages
  \/ KnownListAgents
  \/ KnownConnect
  \/ KnownClose

SpecKnown == KnownInit /\ [][KnownNext]_vars

\* C39 (part): no step removes a name from the known agents.
C39_NamesNeverRemoved ==
  [][DOMAIN knownAgents \subseteq DOMAIN knownAgents']_vars

\* C39 (part): a presence event, and a message event that carries
\* agent-from, to whomever it is addressed, adds or refreshes its sender.
C39_EventsAddTheSender ==
  [][\A shape \in {"presence", "direct", "broadcast", "other"} :
       NostrOnEvent(shape) =>
         /\ "alice" \in DOMAIN knownAgents'
         /\ knownAgents'["alice"] = AgentInfo("alice", BufEvent(shape, nextId))]_vars

\* C39 (part): listAgents returns the known agents and touches neither the
\* socket nor anything the relay holds.
C39_ListAgentsIsLocal ==
  [][KnownListAgents =>
       /\ ret' = NostrListAgents(knownAgents)
       /\ UNCHANGED <<ws, relayInbox, promises, pendingPublish, knownAgents>>]_vars

C39_LifecycleKeepsNames ==
  [][\A c \in LifeClients : lifeKnown[c] \subseteq lifeKnown'[c]]_vars

\* ------------------------------------- exporting the configuration (SpecExport)
\* A NostrClient configured in any way exports its configuration, and a
\* client fresh from the constructor is configured with what was exported.

\* getPublicKey(sk): a function of the private key
PublicKey(privateKey) == <<"pub", privateKey>>

\* ensurePrivkey(): the options with a private key, a generated one if there was none
EnsurePrivkey(opts) ==
  IF Truthy(opts.privateKey) THEN opts ELSE [opts EXCEPT !.privateKey = "generated"]

\* a mutant of exportConfig: the private key left out
NostrExportConfigNoKey(opts) ==
  [agentName |-> opts.agentName, hubUrl |-> opts.relayUrl,
   apiKey |-> Coalesce(opts.teamId, ""), privateKey |-> "", transport |-> "nostr"]

\* exportConfig(), opts being the options after ensurePrivkey()
NostrExportConfig(opts) ==
  [agentName |-> opts.agentName, hubUrl |-> opts.relayUrl,
   apiKey |-> Coalesce(opts.teamId, ""), privateKey |-> Coalesce(opts.privateKey, ""),
   transport |-> "nostr"]

\* the exported record as configure reads it: relayUrl and teamId are not in it
AsOptions(config) ==
  Options(config.agentName, Undef, config.hubUrl, Undef, config.apiKey, config.privateKey)

\* the options of a client the tool layer has just constructed
FreshOpts == [teamId |-> Undef, agentName |-> "", relayUrl |-> "wss://default", privateKey |-> Undef]

\* c.exportConfig(), then fresh.configure(...) with the result
ExportImport ==
  /\ nostrOpts' = EnsurePrivkey(nostrOpts)
  /\ exported' = << NostrExportConfig(EnsurePrivkey(nostrOpts)) >>
  /\ freshOpts' = << NostrConfigure(FreshOpts, AsOptions(NostrExportConfig(EnsurePrivkey(nostrOpts)))) >>
  /\ UNCHANGED <<hubOpts, cfgIn>>
  /\ UNCHANGED <<storeVars, bufVars, sharedVars, hubVars, pubVars, relayVars, orderVars, lifeVars, handlerVars, recvVars, waitVars, snapVars, joinVars>>

ExportNext ==
  \/ \E agentName \in CfgNames, relayUrl \in CfgUrls, hubUrl \in CfgUrls,
        teamId \in CfgCredentials, apiKey \in CfgCredentials, privateKey \in CfgPrivateKeys :
       Configure(Options(agentName, relayUrl, hubUrl, teamId, apiKey, privateKey))
  \/ NostrEnsurePrivkey
  \/ ExportImport

SpecExport == CfgInit /\ [][ExportNext]_vars

\* C40 (part): what exportConfig returns always has a private key that is
\* not empty and transport = nostr.
C40_ExportHasKeyAndTransport ==
  exported # << >> => exported[1].privateKey # "" /\ exported[1].transport = "nostr"

\* C40 (part): a fresh client configured with the export of a client that
\* has a team has the same team, name, relay and public key.
C40_FreshClientIsTheSame ==
  [][ExportImport /\ nostrOpts.teamId # Undef =>
       /\ freshOpts'[1].teamId = nostrOpts'.teamId
       /\ freshOpts'[1].agentName = nostrOpts'.agentName
       /\ freshOpts'[1].relayUrl = nostrOpts'.relayUrl
       /\ PublicKey(freshOpts'[1].privateKey) = PublicKey(nostrOpts'.privateKey)
       /\ NostrIsConfigured(freshOpts'[1]) = NostrIsConfigured(nostrOpts')]_vars

\* C40: credential persistence round-trips on the relay transport: a fresh
\* client configured with c.exportConfig() has c's teamId, agentName, relayUrl
\* and public key, and the export always holds a non-empty privateKey and
\* transport = nostr.
C40_ExportRoundTrips == []C40_ExportHasKeyAndTransport /\ C40_FreshClientIsTheSame

\* a client with a team and no private key has exported: the key was
\* generated and the fresh client holds it, with the relay URL of the export
C40_Witness ==
  /\ exported # << >> /\ freshOpts # << >>
  /\ nostrOpts.teamId = "team1" /\ nostrOpts.agentName = "bob"
  /\ exported[1].privateKey = "generated"
  /\ freshOpts[1].privateKey = "generated"
  /\ freshOpts[1].relayUrl = "wss://new"
  /\ freshOpts[1] = nostrOpts

====
